---- MODULE Spec2Model ----
(***************************************************************************)
(* Model of the class-based TokenService (src/src/token-service.ts,        *)
(* lines 265-545): several browser tabs share one storage item and one     *)
(* named lock, and call getAccessToken / setStatus / setLoggedOut /        *)
(* subscribeStatusUpdates concurrently.                                     *)
(*                                                                         *)
(* Time is counted in ticks of 500 ms, expiry timestamps in whole seconds. *)
(***************************************************************************)
EXTENDS Integers, Sequences, FiniteSets, TLC

\* ------------------------------------------------------------------ bounds
NumTabs == 2
MaxNow == 2
MaxSubs == 2

\* the Timer: the longest single timeout, 2147483647 ms in the source, is
\* scaled down so that chains of timeouts are within reach; ttlMs runs up to
\* MaxTtlMs and a timeout fires up to MaxLateMs late
maxTimeoutMs == 3
MaxTtlMs == 10
MaxLateMs == 1

\* the leader-scheduler variant: its clock runs up to MaxLeaderNow, and a tab
\* has at most MaxInbox broadcast messages waiting to be handled
MaxLeaderNow == 4
MaxInbox == 1

\* ------------------------------------------------------- program constants
MIN_TOKEN_TTL == 5

LOCAL_STORAGE_STATUS_KEY == "authStatus"
GET_TOKEN_LOCK == "multitab-token-access-lock"

\* a storage key and a lock name handed to the constructor as options
OTHER_STORAGE_KEY == "otherStatus"
OTHER_LOCK == "other-lock"

\* the locks: 0 is the Web Lock named GET_TOKEN_LOCK, -1 the Web Lock named
\* OTHER_LOCK, k > 0 the Mutex of the instance of tab k
LockIds == (-1)..NumTabs

MSG_STATUS_CHANGE == "statusChange"

LOGGED_OUT_ERROR == "Logged out"

\* the exception JSON.parse throws on a text that is not JSON
SYNTAX_ERROR == "SyntaxError"

\* the error object a failing refresh callback rejects with (host supplied)
CALLBACK_ERROR == "callback error"
SUBSCRIBER_ERROR == "subscriber error"

\* the leader-scheduler variant (src/unnamed/part_006)
MSG_LOGOUT == "loggedOut"
REFRESH_TRESHOLD_TTL == 10
MIN_TTL == 5
\* setInterval(refreshWhenExpired, 1000), in half seconds
IntervalTicks == 2

BASE_STATUS ==
  [accessToken |-> "", accessTokenExp |-> 0,
   refreshToken |-> "", refreshTokenExp |-> 0,
   loggedIn |-> FALSE, accessTokenValid |-> FALSE]

\* ------------------------------------------------------------- the domain
Tabs == 1..NumTabs
\* getAccessToken() calls: call c runs in tab c
Calls == Tabs

\* expiry timestamps (epoch seconds) the host hands out: ShortExp is valid
\* at ticks 0 and 1 and expires at tick 2; LongExp outlasts the horizon
ShortExp == MIN_TOKEN_TTL
LongExp == MIN_TOKEN_TTL + (MaxNow + 1) \div 2
ExpChoices == {ShortExp, LongExp}

\* the token strings the host hands out
AccessTokens == {"", "A1"}
RefreshTokens == {"", "R1"}

\* the Tokens values a login or a refresh callback can produce; an empty
\* token string is given the long expiry, the one that would make it valid
Tokens ==
  {tokens \in [accessToken : AccessTokens, accessTokenExp : ExpChoices,
               refreshToken : RefreshTokens, refreshTokenExp : ExpChoices] :
     /\ tokens.accessToken = "" => tokens.accessTokenExp = LongExp
     /\ tokens.refreshToken = "" => tokens.refreshTokenExp = LongExp}

Max(a, b) == IF a >= b THEN a ELSE b
Min(a, b) == IF a <= b THEN a ELSE b

\* ---------------------------------------------------- utilities & getters
\* Math.max(0, Math.round(timestamp - new Date().getTime() / 1000)),
\* with the clock t in half seconds; Math.round rounds halves up
ttl(timestamp, t) == Max(0, (2 * timestamp - t + 1) \div 2)

\* variant: the comparison with MIN_TOKEN_TTL is strict
accessTokenValid_strict(status, t) ==
  /\ status.accessToken # ""
  /\ ttl(status.accessTokenExp, t) > MIN_TOKEN_TTL

\* variant: the expiry of the access token is not looked at
accessTokenValid_nonEmptyOnly(status, t) == status.accessToken # ""

accessTokenValid(status, t) ==
  /\ status.accessToken # ""
  /\ ttl(status.accessTokenExp, t) >= MIN_TOKEN_TTL

refreshTokenValid(status, t) ==
  /\ status.refreshToken # ""
  /\ ttl(status.refreshTokenExp, t) >= MIN_TOKEN_TTL

\* { ...BASE_STATUS, ...tokensOrStatus }
Spread(base, obj) ==
  [f \in DOMAIN base |-> IF f \in DOMAIN obj THEN obj[f] ELSE base[f]]

\* variant: flags present in the object read are kept as they are
createNewStatus_trusting(tokensOrStatus, t) ==
  LET status == Spread(BASE_STATUS, tokensOrStatus)
  IN  [status EXCEPT
         !.loggedIn = IF "loggedIn" \in DOMAIN tokensOrStatus
                      THEN tokensOrStatus.loggedIn
                      ELSE refreshTokenValid(status, t),
         !.accessTokenValid = IF "accessTokenValid" \in DOMAIN tokensOrStatus
                              THEN tokensOrStatus.accessTokenValid
                              ELSE accessTokenValid(status, t)]

\* variant: an access token that is not valid is replaced by the empty string
createNewStatus_blanking(tokensOrStatus, t) ==
  LET status == Spread(BASE_STATUS, tokensOrStatus)
  IN  [status EXCEPT !.accessToken = IF accessTokenValid(status, t)
                                     THEN status.accessToken ELSE "",
                     !.loggedIn = refreshTokenValid(status, t),
                     !.accessTokenValid = accessTokenValid(status, t)]

createNewStatus(tokensOrStatus, t) ==
  LET status == Spread(BASE_STATUS, tokensOrStatus)
  IN  [status EXCEPT !.loggedIn = refreshTokenValid(status, t),
                     !.accessTokenValid = accessTokenValid(status, t)]

\* --------------------------------------------------------- serialization
\* JSON.stringify(status): the six fields in declaration order
JSONstringify(status) ==
  <<status.accessToken, status.accessTokenExp, status.refreshToken,
    status.refreshTokenExp, status.loggedIn, status.accessTokenValid>>

\* JSON.parse(text); "{}" is the empty tuple
JSONparse(text) ==
  IF text = <<>> THEN <<>>
  ELSE [accessToken |-> text[1], accessTokenExp |-> text[2],
        refreshToken |-> text[3], refreshTokenExp |-> text[4],
        loggedIn |-> text[5], accessTokenValid |-> text[6]]

\* a stored text that is not JSON, as something other than the service may
\* leave under the storage key
UnparsableText == <<"{">>

\* JSON.parse(text) throws a SyntaxError: the text is neither "{}" nor a
\* serialized status
JSONparseThrows(text) == Len(text) \notin {0, 6}

VARIABLES
  now,                  \* the wall clock, in half seconds
  storage,              \* <<>> when no item is stored under storageKey,
                        \* <<text>> when the item is the serialized text
  supportsWebLocksApi,  \* whether navigator.locks.request exists
  lock,                 \* lock[k]: the call holding lock k, 0 when free
  pc,                   \* where each getAccessToken() call is
  arg,                  \* the refresh token passed to the callback in flight
  handle,               \* the in-flight callback has invoked its logout handle
  result,               \* what the call settled with
  cbCount,              \* callback invocations made by the current call,
                        \* counted 0, 1, 2 (two or more)
  outcome,              \* how the call's last callback invocation settled;
                        \* "awaited" while it waits or has waited for the
                        \* callback to be registered
  returned,             \* the Tokens the call's callback resolved with
  cycle,                \* callback invocations, in flight or succeeded, made
                        \* on the record now stored, counted 0, 1, 2
  statusSubscribers,    \* number of subscribers registered in each tab
  sent,                 \* the deliveries made by the last operation
  refreshCallbackPromise, \* per tab: "resolved" once the tab's refresh
                        \* callback is registered, "pending" before
  callTab,              \* the tab each getAccessToken() call runs in
  storageKey,           \* the storage key of each tab's instance
  lockName,             \* the lock name of each tab's instance
  thrower,              \* per tab: which of its subscribers, in registration
                        \* order, throws when it is called; 0 when none does
  inMemory,             \* there is no window: the storage is the in-memory
                        \* fallback object
  others,               \* the item stored under OTHER_STORAGE_KEY, as storage
  peerSub,              \* per tab: which of its subscribers is the one
                        \* subscribeToPeerTabUpdates registered, 0 when none
  peerLoggedIn,         \* per tab: the loggedIn kept by that subscriber
  posted,               \* the messages posted on the broadcast channel by
                        \* the last operation
  timer,                \* the Timer object: its ttlMs, the timeout it has
                        \* pending, and what it has done so far
  leaderTabs,           \* leader-scheduler variant, per tab: the module's
                        \* currentStatus, elector.isLeader, refreshInterval
                        \* and what its callers and callback have seen
  authChannel           \* per tab: the broadcast messages not yet handled

vars == <<now, storage, supportsWebLocksApi, lock, pc, arg, handle, result,
          cbCount, outcome, returned, cycle, statusSubscribers, sent,
          refreshCallbackPromise, callTab, storageKey, lockName, thrower,
          inMemory, others, peerSub, peerLoggedIn, posted, timer, leaderTabs,
          authChannel>>

\* what the tabs' instances are constructed with and run in, what their
\* subscribers are written to do, and where the calls run
setup == <<callTab, storageKey, lockName, thrower, inMemory>>

\* what the token service does not touch
apart == <<timer, leaderTabs, authChannel>>

\* the tab a getAccessToken() call runs in
tabOf(c) == callTab[c]

\* this.storage.getItem(this.storageKey) in the instance of tab
getItem(tab) ==
  IF storageKey[tab] = LOCAL_STORAGE_STATUS_KEY THEN storage ELSE others

\* variant: the item is written under LOCAL_STORAGE_STATUS_KEY by every
\* instance
setItem_defaultKey(tab, item) == storage' = item /\ others' = others

\* this.storage.setItem(this.storageKey, text) or removeItem(this.storageKey)
\* in the instance of tab leaves item under the key
setItem(tab, item) ==
  IF storageKey[tab] = LOCAL_STORAGE_STATUS_KEY
  THEN storage' = item /\ others' = others
  ELSE others' = item /\ storage' = storage

\* the item under the key of the instance of tab once the step has written
newItem(tab) ==
  IF storageKey[tab] = LOCAL_STORAGE_STATUS_KEY THEN storage' ELSE others'

NoResult == [kind |-> "none", token |-> "", error |-> ""]
Value(tok) == [kind |-> "value", token |-> tok, error |-> ""]
Error(e) == [kind |-> "error", token |-> "", error |-> e]

NoTokens ==
  [accessToken |-> "", accessTokenExp |-> 0,
   refreshToken |-> "", refreshTokenExp |-> 0]

\* ------------------------------------------------------------------ Timer
\* a Timer object before its constructor has run. ttlMs is this.ttlMs; id
\* is the delay of the timeout that is pending, -1 when none is; target is
\* the ttlMs the
\* constructor was given, elapsed the time since then, scheduled the delays
\* handed to setTimeout so far, callbacks the number of callback invocations
TimerNone ==
  [ttlMs |-> 0, id |-> -1, target |-> 0, elapsed |-> 0, scheduled |-> <<>>,
   callbacks |-> 0, cancelled |-> FALSE]

\* variant: the whole ttlMs is handed to setTimeout
schedule_unclamped(t) ==
  LET timeoutMs == t.ttlMs
  IN  [t EXCEPT !.ttlMs = @ - timeoutMs, !.id = timeoutMs,
                !.scheduled = Append(@, timeoutMs)]

\* schedule(): timeoutMs = Math.min(this.ttlMs, maxTimeoutMs);
\* this.ttlMs -= timeoutMs; this.id = setTimeout(..., timeoutMs)
schedule(t) ==
  LET timeoutMs == Min(t.ttlMs, maxTimeoutMs)
  IN  [t EXCEPT !.ttlMs = @ - timeoutMs, !.id = timeoutMs,
                !.scheduled = Append(@, timeoutMs)]

\* new Timer(callback, ttlMs) with ttlMs >= 0
NewTimer(ttlMs) == schedule([TimerNone EXCEPT !.ttlMs = ttlMs, !.target = ttlMs])

\* ------------------------------------------------ leader-scheduler variant
\* the module-level service of src/unnamed/part_006: every tab keeps its own
\* currentStatus, the tabs tell each other of changes over a broadcast
\* channel, and the elected leader tab polls for the refresh
LeaderBaseStatus ==
  [accessToken |-> "", accessTokenExp |-> 0,
   refreshToken |-> "", refreshTokenExp |-> 0, loggedIn |-> FALSE]

\* expiry timestamps: NearExp comes within REFRESH_TRESHOLD_TTL at tick 2,
\* FarExp at tick 4; an expiry of MIN_TTL stops being valid at tick 2
NearExp == REFRESH_TRESHOLD_TTL + 1
FarExp == REFRESH_TRESHOLD_TTL + 2

\* the Tokens handed to updateStatus: a token that is missing is the empty
\* string with expiry 0, a refresh token has the far expiry
LeaderTokens ==
  {tokens \in [accessToken : AccessTokens,
               accessTokenExp : {0, MIN_TTL, NearExp, FarExp},
               refreshToken : RefreshTokens, refreshTokenExp : {0, FarExp}] :
     /\ tokens.accessToken = "" <=> tokens.accessTokenExp = 0
     /\ tokens.refreshToken = "" <=> tokens.refreshTokenExp = 0}

\* JSON.stringify of a status of this variant: five fields
LeaderStringify(status) ==
  <<status.accessToken, status.accessTokenExp, status.refreshToken,
    status.refreshTokenExp, status.loggedIn>>

\* JSON.parse of such a text; "{}" is the empty tuple
LeaderParse(text) ==
  IF text = <<>> THEN <<>>
  ELSE [accessToken |-> text[1], accessTokenExp |-> text[2],
        refreshToken |-> text[3], refreshTokenExp |-> text[4],
        loggedIn |-> text[5]]

\* how a getAccessToken() call settled: exp is the expiry that came with the
\* access token it resolved with
NoAnswer == [kind |-> "none", token |-> "", exp |-> 0, error |-> ""]
Resolved(tok, exp) == [kind |-> "value", token |-> tok, exp |-> exp, error |-> ""]
Rejected(e) == [kind |-> "error", token |-> "", exp |-> 0, error |-> e]

\* a tab's module state after its initialization on an empty storage.
\* refreshInterval is the tick the interval fires next, -1 when none runs;
\* deferred counts the callback invocations waiting for the callback to be
\* registered; invocations counts, 0, 1, 2 (two or more), the callback
\* invocations made since updateStatus, a statusChange or a logout was last
\* handled; waiting says a getAccessToken() call awaits accessTokenPromise,
\* answer is how the tab's last call settled
LeaderTabInit ==
  [currentStatus |-> LeaderBaseStatus, isLeader |-> FALSE,
   refreshInterval |-> -1, deferred |-> 0, invocations |-> 0,
   waiting |-> FALSE, answer |-> NoAnswer]

\* the new status updateLocalStatus computes from newTokens
LeaderNewStatus(newTokens, t) ==
  LET status == Spread(LeaderBaseStatus, newTokens)
      loggedIn == status.refreshToken # ""
                    /\ ttl(status.refreshTokenExp, t) >= MIN_TTL
      accessValid == status.accessToken # ""
                       /\ ttl(status.accessTokenExp, t) >= MIN_TTL
  IN  [status EXCEPT !.loggedIn = loggedIn,
                     !.accessToken = IF accessValid THEN @ ELSE ""]

\* updateLocalStatus(newTokens) in a tab whose currentStatus is current:
\* whether the serialized new status differs, and the currentStatus after
updateLocalStatus(current, newTokens, t) ==
  LET newStatus == LeaderNewStatus(newTokens, t)
      changed == LeaderStringify(newStatus) # LeaderStringify(current)
  IN  [changed |-> changed,
       currentStatus |-> IF changed THEN newStatus ELSE current]

\* scheduleRefreshIfLeader(): clearInterval and setInterval when the tab is
\* the leader and currentStatus.loggedIn
scheduleRefreshIfLeader(rec, t) ==
  IF rec.isLeader /\ rec.currentStatus.loggedIn
  THEN [rec EXCEPT !.refreshInterval = t + IntervalTicks]
  ELSE rec

\* the accessTokenPromise a call may be waiting on is settled with answer
\* and renewed
settle(rec, answer) ==
  [rec EXCEPT !.waiting = FALSE,
              !.answer = IF rec.waiting THEN answer ELSE @]

\* authChannel.postMessage(message) from tab: every other tab gets it
postMessage(tab, message) ==
  [t \in Tabs |-> IF t = tab THEN authChannel[t]
                  ELSE Append(authChannel[t], message)]

\* the deliveries notifyStatusUpdate makes in tab when updateLocalStatus has
\* changed currentStatus to status
leaderNotify(tab, changed, status) ==
  IF changed
  THEN [i \in 1..statusSubscribers[tab] |->
          [tab |-> tab, sub |-> i, status |-> status]]
  ELSE <<>>

\* what is outside the token service is not there: no Timer has been
\* constructed and no tab has loaded the leader-scheduler module
Elsewhere ==
  /\ timer = <<>>
  /\ leaderTabs = <<>>
  /\ authChannel = <<>>

\* ----------------------------------------------------------------- status
\* getItem, "{}" when null, JSON.parse, createNewStatus
getStatus(store, t) ==
  LET serializedStatus == IF store = <<>> THEN <<>> ELSE store[1]
  IN  createNewStatus(JSONparse(serializedStatus), t)

\* getStatus() throws: the item is present and JSON.parse rejects its text
getStatusThrows(store) == store # <<>> /\ JSONparseThrows(store[1])

saveStatus(status) == <<JSONstringify(status)>>

\* variant: an empty status is written instead of the item being removed
deleteStatus_blank == saveStatus(BASE_STATUS)

deleteStatus == <<>>

\* removeItem(key) of the in-memory fallback storage is `delete storage.key`:
\* the property named "key" is deleted and the entry under the key, item,
\* stays
fallbackRemoveItem(item) == item

\* the item under the key of tab's instance after removeItem
removeItem(tab) ==
  IF inMemory THEN fallbackRemoveItem(getItem(tab)) ELSE deleteStatus

\* a registered subscriber of tab throws when it is called
Throws(tab) == thrower[tab] \in 1..statusSubscribers[tab]

\* variant: the status read before the write is what gets delivered
notifyStatusUpdate_stale(tab, store, t) ==
  [i \in 1..statusSubscribers[tab] |->
     [tab |-> tab, sub |-> i, status |-> getStatus(getItem(tab), t)]]

\* variant: every subscriber is called twice
notifyStatusUpdate_twice(tab, store, t) ==
  [i \in 1..(2 * statusSubscribers[tab]) |->
     [tab |-> tab, sub |-> ((i - 1) % statusSubscribers[tab]) + 1,
      status |-> getStatus(store, t)]]

\* the deliveries notifyStatusUpdate makes in tab: the status re-read from
\* store, to every subscriber in registration order
notifyStatusUpdate(tab, store, t) ==
  [i \in 1..(IF Throws(tab) THEN thrower[tab] ELSE statusSubscribers[tab]) |->
     [tab |-> tab, sub |-> i, status |-> getStatus(store, t)]]

\* ------------------------------------------------------------- peer tabs
\* `${MSG_STATUS_CHANGE}: ${loggedIn ? "true" : "false"}`
statusChangeMessage(loggedIn) ==
  IF loggedIn THEN "statusChange: true" ELSE "statusChange: false"

\* variant: a message is posted for every delivered status
peerSubscriber_everyDelivery(loggedIn, status) ==
  [loggedIn |-> status.loggedIn, post |-> TRUE]

\* the subscriber subscribeToPeerTabUpdates registers, called with status
\* while its closure variable holds loggedIn: the value it keeps, and
\* whether it posts a message
peerSubscriber(loggedIn, status) ==
  [loggedIn |-> status.loggedIn, post |-> status.loggedIn # loggedIn]

\* the deliveries of one operation, in order, as seen by the peer-tab
\* subscribers subs of the tabs, whose closure variables hold kept: the
\* values they keep and the messages they post
RECURSIVE PeerRun(_, _, _)
PeerRun(deliveries, subs, kept) ==
  IF deliveries = <<>> THEN [loggedIn |-> kept, posted |-> <<>>]
  ELSE LET d == Head(deliveries)
           called == d.sub = subs[d.tab]
           r == peerSubscriber(kept[d.tab], d.status)
           rest == PeerRun(Tail(deliveries), subs,
                           IF called THEN [kept EXCEPT ![d.tab] = r.loggedIn]
                           ELSE kept)
       IN  [rest EXCEPT !.posted =
              (IF called /\ r.post
               THEN <<[tab |-> d.tab,
                       message |-> statusChangeMessage(r.loggedIn)]>>
               ELSE <<>>) \o rest.posted]

\* what the deliveries of the step do in the peer-tab subscribers
PeerReact ==
  /\ peerSub' = peerSub
  /\ IF sent' = <<>>
     THEN peerLoggedIn' = peerLoggedIn /\ posted' = <<>>
     ELSE LET r == PeerRun(sent', peerSub, peerLoggedIn)
          IN  peerLoggedIn' = r.loggedIn /\ posted' = r.posted

\* ------------------------------------------------------------------- lock
\* navigator.locks.request(lockName, ...) when supported, else the
\* instance's own Mutex
\* variant: the fallback Mutex is made anew for every call
lockOf_perCall(c) ==
  IF supportsWebLocksApi
  THEN (IF lockName[tabOf(c)] = GET_TOKEN_LOCK THEN 0 ELSE -1)
  ELSE c

lockOf(c) ==
  IF supportsWebLocksApi
  THEN (IF lockName[tabOf(c)] = GET_TOKEN_LOCK THEN 0 ELSE -1)
  ELSE tabOf(c)

\* variant: getAccessTokenNonSynchronized is run without requesting the lock
Granted_unlocked(c) == pc[c] \in {"waiting", "saved"}

\* the call has been granted the lock, or is already inside its section
Granted(c) ==
  \/ pc[c] = "waiting" /\ lock[lockOf(c)] = 0
  \/ pc[c] = "saved" /\ lock[lockOf(c)] = c

\* variant: the lock is let go before the refresh callback is invoked
Acquire_unheld(c) == [lock EXCEPT ![lockOf(c)] = 0]

Acquire(c) == [lock EXCEPT ![lockOf(c)] = c]

\* variant: the section's promise settles without the lock being let go
Release_kept(c) == [lock EXCEPT ![lockOf(c)] = c]

Release(c) == [lock EXCEPT ![lockOf(c)] = 0]

\* variant: a valid access token is refreshed all the same
Decide_noFastPath(status) ==
  IF ~status.loggedIn THEN "throw" ELSE "refresh"

\* variant: refresh() does not look at loggedIn
Decide_noLoginCheck(status) ==
  IF status.accessTokenValid THEN "return" ELSE "refresh"

\* the branch getAccessTokenNonSynchronized and refresh take on a status
Decide(status) ==
  IF status.accessTokenValid THEN "return"
  ELSE IF ~status.loggedIn THEN "throw"
  ELSE "refresh"

Init ==
  /\ now = 0
  /\ storage = <<>>
  /\ supportsWebLocksApi = TRUE
  /\ lock = [k \in LockIds |-> 0]
  /\ pc = [c \in Calls |-> "idle"]
  /\ arg = [c \in Calls |-> ""]
  /\ handle = [c \in Calls |-> FALSE]
  /\ result = [c \in Calls |-> NoResult]
  /\ cbCount = [c \in Calls |-> 0]
  /\ outcome = [c \in Calls |-> "none"]
  /\ returned = [c \in Calls |-> NoTokens]
  /\ cycle = 0
  /\ statusSubscribers = [tab \in Tabs |-> 0]
  /\ sent = <<>>
  /\ refreshCallbackPromise = [tab \in Tabs |-> "resolved"]
  /\ callTab = [c \in Calls |-> c]
  /\ storageKey = [tab \in Tabs |-> LOCAL_STORAGE_STATUS_KEY]
  /\ lockName = [tab \in Tabs |-> GET_TOKEN_LOCK]
  /\ thrower = [tab \in Tabs |-> 0]
  /\ inMemory = FALSE
  /\ others = <<>>
  /\ peerSub = [tab \in Tabs |-> 0]
  /\ peerLoggedIn = [tab \in Tabs |-> FALSE]
  /\ posted = <<>>
  /\ Elsewhere

\* time passes
Tick ==
  /\ now < MaxNow
  /\ now' = now + 1
  /\ sent' = <<>>
  /\ UNCHANGED <<storage, supportsWebLocksApi, lock, pc, arg, handle, result,
                 cbCount, outcome, returned, cycle, statusSubscribers>>
  /\ UNCHANGED <<refreshCallbackPromise, others, setup, apart>>
  /\ PeerReact

\* setStatus(tokens), called by the host in tab
SetStatus(tab, tokens) ==
  /\ setItem(tab, saveStatus(createNewStatus(tokens, now)))
  /\ sent' = notifyStatusUpdate(tab, newItem(tab), now)
  /\ cycle' = 0
  /\ UNCHANGED <<now, supportsWebLocksApi, lock, pc, arg, handle, result,
                 cbCount, outcome, returned, statusSubscribers>>
  /\ UNCHANGED <<refreshCallbackPromise, setup, apart>>
  /\ PeerReact

\* setLoggedOut(), called by the host in tab
SetLoggedOut(tab) ==
  /\ setItem(tab, removeItem(tab))
  /\ sent' = notifyStatusUpdate(tab, newItem(tab), now)
  /\ cycle' = 0
  /\ UNCHANGED <<now, supportsWebLocksApi, lock, pc, arg, handle, result,
                 cbCount, outcome, returned, statusSubscribers>>
  /\ UNCHANGED <<refreshCallbackPromise, setup, apart>>
  /\ PeerReact

\* variant: after registering, all subscribers of the tab are notified
SubscribeStatusUpdates_notifyAll(tab) ==
  /\ statusSubscribers[tab] < MaxSubs
  /\ statusSubscribers' =
       [statusSubscribers EXCEPT ![tab] = statusSubscribers[tab] + 1]
  /\ sent' = [i \in 1..statusSubscribers'[tab] |->
               [tab |-> tab, sub |-> i, status |-> getStatus(getItem(tab), now)]]
  /\ UNCHANGED <<now, storage, supportsWebLocksApi, lock, pc, arg, handle,
                 result, cbCount, outcome, returned, cycle>>
  /\ UNCHANGED <<refreshCallbackPromise, others, setup, apart>>
  /\ PeerReact

\* subscribeStatusUpdates(subscriber) in tab
SubscribeStatusUpdates(tab) ==
  /\ statusSubscribers[tab] < MaxSubs
  /\ statusSubscribers' =
       [statusSubscribers EXCEPT ![tab] = statusSubscribers[tab] + 1]
  /\ sent' = IF getStatusThrows(getItem(tab)) THEN <<>>
             ELSE <<[tab |-> tab, sub |-> statusSubscribers'[tab],
                     status |-> getStatus(getItem(tab), now)]>>
  /\ UNCHANGED <<now, storage, supportsWebLocksApi, lock, pc, arg, handle,
                 result, cbCount, outcome, returned, cycle>>
  /\ UNCHANGED <<refreshCallbackPromise, others, setup, apart>>
  /\ PeerReact

\* subscribeToPeerTabUpdates(tokenService) in tab: loggedIn is read from
\* getStatus(), then the subscriber is registered and called with the current
\* status
SubscribeToPeerTabUpdates(tab) ==
  /\ statusSubscribers[tab] < MaxSubs
  /\ peerSub[tab] = 0
  /\ ~getStatusThrows(getItem(tab))
  /\ statusSubscribers' =
       [statusSubscribers EXCEPT ![tab] = statusSubscribers[tab] + 1]
  /\ sent' = <<[tab |-> tab, sub |-> statusSubscribers'[tab],
                status |-> getStatus(getItem(tab), now)]>>
  /\ peerSub' = [peerSub EXCEPT ![tab] = statusSubscribers'[tab]]
  /\ LET kept == [peerLoggedIn EXCEPT
                    ![tab] = getStatus(getItem(tab), now).loggedIn]
     IN  /\ peerLoggedIn' = PeerRun(sent', peerSub', kept).loggedIn
         /\ posted' = PeerRun(sent', peerSub', kept).posted
  /\ UNCHANGED <<now, storage, supportsWebLocksApi, lock, pc, arg, handle,
                 result, cbCount, outcome, returned, cycle>>
  /\ UNCHANGED <<refreshCallbackPromise, others, setup, apart>>

\* getAccessToken() is called: the lock is requested
GetAccessToken(c) ==
  /\ pc[c] \in {"idle", "done"}
  /\ pc' = [pc EXCEPT ![c] = "waiting"]
  /\ result' = [result EXCEPT ![c] = NoResult]
  /\ cbCount' = [cbCount EXCEPT ![c] = 0]
  /\ outcome' = [outcome EXCEPT ![c] = "none"]
  /\ sent' = <<>>
  /\ UNCHANGED <<now, storage, supportsWebLocksApi, lock, arg, handle,
                 returned, cycle, statusSubscribers>>
  /\ UNCHANGED <<refreshCallbackPromise, others, setup, apart>>
  /\ PeerReact

\* inside the lock the status read is valid: return its access token
FastPath(c) ==
  /\ Granted(c)
  /\ ~getStatusThrows(getItem(tabOf(c)))
  /\ Decide(getStatus(getItem(tabOf(c)), now)) = "return"
  /\ pc' = [pc EXCEPT ![c] = "done"]
  /\ result' = [result EXCEPT ![c] = Value(getStatus(getItem(tabOf(c)), now).accessToken)]
  /\ returned' = [returned EXCEPT ![c] = NoTokens]
  /\ lock' = Release(c)
  /\ sent' = <<>>
  /\ UNCHANGED <<now, storage, supportsWebLocksApi, arg, handle, cbCount,
                 outcome, cycle, statusSubscribers>>
  /\ UNCHANGED <<refreshCallbackPromise, others, setup, apart>>
  /\ PeerReact

\* inside the lock the status read is neither valid nor logged in:
\* refresh() throws LOGGED_OUT_ERROR
ThrowLoggedOut(c) ==
  /\ Granted(c)
  /\ ~getStatusThrows(getItem(tabOf(c)))
  /\ Decide(getStatus(getItem(tabOf(c)), now)) = "throw"
  /\ pc' = [pc EXCEPT ![c] = "done"]
  /\ result' = [result EXCEPT ![c] = Error(LOGGED_OUT_ERROR)]
  /\ returned' = [returned EXCEPT ![c] = NoTokens]
  /\ lock' = Release(c)
  /\ sent' = <<>>
  /\ UNCHANGED <<now, storage, supportsWebLocksApi, arg, handle, cbCount,
                 outcome, cycle, statusSubscribers>>
  /\ UNCHANGED <<refreshCallbackPromise, others, setup, apart>>
  /\ PeerReact

\* variant: the access token is passed instead
callbackArgument_accessToken(currentStatus) == currentStatus.accessToken

\* the first argument refresh() passes to the refresh callback
callbackArgument(currentStatus) == currentStatus.refreshToken

\* inside the lock the status read is logged in without a valid access
\* token: refresh() invokes the refresh callback with its refresh token
InvokeCallback(c) ==
  /\ Granted(c)
  /\ ~getStatusThrows(getItem(tabOf(c)))
  /\ Decide(getStatus(getItem(tabOf(c)), now)) = "refresh"
  /\ refreshCallbackPromise[tabOf(c)] = "resolved"
  /\ pc' = [pc EXCEPT ![c] = "inflight"]
  /\ arg' = [arg EXCEPT ![c] = callbackArgument(getStatus(getItem(tabOf(c)), now))]
  /\ cbCount' = [cbCount EXCEPT ![c] = IF cbCount[c] < 2
                                       THEN cbCount[c] + 1 ELSE 2]
  /\ outcome' = [outcome EXCEPT ![c] = "none"]
  /\ returned' = [returned EXCEPT ![c] = NoTokens]
  /\ lock' = Acquire(c)
  /\ cycle' = IF cycle < 2 THEN cycle + 1 ELSE 2
  /\ sent' = <<>>
  /\ UNCHANGED <<now, storage, supportsWebLocksApi, handle, result,
                 statusSubscribers>>
  /\ UNCHANGED <<refreshCallbackPromise, others, setup, apart>>
  /\ PeerReact

\* refresh() without the await: with no callback registered the call fails
AwaitRefreshCallback_fails(c) ==
  /\ Granted(c)
  /\ ~getStatusThrows(getItem(tabOf(c)))
  /\ Decide(getStatus(getItem(tabOf(c)), now)) = "refresh"
  /\ refreshCallbackPromise[tabOf(c)] = "pending"
  /\ pc' = [pc EXCEPT ![c] = "done"]
  /\ result' = [result EXCEPT ![c] = Error(LOGGED_OUT_ERROR)]
  /\ lock' = Release(c)
  /\ sent' = <<>>
  /\ UNCHANGED <<now, storage, supportsWebLocksApi, arg, handle, cbCount,
                 outcome, returned, cycle, statusSubscribers>>
  /\ UNCHANGED <<refreshCallbackPromise, others, setup, apart>>
  /\ PeerReact

\* module-level service: inside the lock the status read is logged in without
\* a valid access token and no refresh callback has been registered yet;
\* refresh() awaits refreshCallbackPromise, holding the refresh token it read
AwaitRefreshCallback(c) ==
  /\ Granted(c)
  /\ ~getStatusThrows(getItem(tabOf(c)))
  /\ Decide(getStatus(getItem(tabOf(c)), now)) = "refresh"
  /\ refreshCallbackPromise[tabOf(c)] = "pending"
  /\ pc' = [pc EXCEPT ![c] = "suspended"]
  /\ arg' = [arg EXCEPT ![c] = callbackArgument(getStatus(getItem(tabOf(c)), now))]
  /\ outcome' = [outcome EXCEPT ![c] = "awaited"]
  /\ returned' = [returned EXCEPT ![c] = NoTokens]
  /\ lock' = Acquire(c)
  /\ sent' = <<>>
  /\ UNCHANGED <<now, storage, supportsWebLocksApi, handle, result, cbCount,
                 cycle, statusSubscribers>>
  /\ UNCHANGED <<refreshCallbackPromise, others, setup, apart>>
  /\ PeerReact

\* module-level service: setRefreshCallback(refreshCallback) in tab resolves
\* the tab's refreshCallbackPromise
SetRefreshCallback(tab) ==
  /\ refreshCallbackPromise[tab] = "pending"
  /\ refreshCallbackPromise' =
       [refreshCallbackPromise EXCEPT ![tab] = "resolved"]
  /\ sent' = <<>>
  /\ UNCHANGED <<now, storage, supportsWebLocksApi, lock, pc, arg, handle,
                 result, cbCount, outcome, returned, cycle, statusSubscribers>>
  /\ UNCHANGED <<others, setup, apart>>
  /\ PeerReact

\* module-level service: the awaited promise has resolved; refresh() invokes
\* the callback with the refresh token it read before it was suspended
ResumeRefresh(c) ==
  /\ pc[c] = "suspended"
  /\ refreshCallbackPromise[tabOf(c)] = "resolved"
  /\ pc' = [pc EXCEPT ![c] = "inflight"]
  /\ cbCount' = [cbCount EXCEPT ![c] = IF cbCount[c] < 2
                                       THEN cbCount[c] + 1 ELSE 2]
  /\ cycle' = IF cycle < 2 THEN cycle + 1 ELSE 2
  /\ sent' = <<>>
  /\ UNCHANGED <<now, storage, supportsWebLocksApi, lock, arg, handle, result,
                 outcome, returned, statusSubscribers>>
  /\ UNCHANGED <<refreshCallbackPromise, others, setup, apart>>
  /\ PeerReact

\* the callback in flight invokes the logout handle it was given, that is
\* setLoggedOut() of its instance
CallbackLogout(c) ==
  /\ pc[c] = "inflight"
  /\ ~handle[c]
  /\ handle' = [handle EXCEPT ![c] = TRUE]
  /\ setItem(tabOf(c), removeItem(tabOf(c)))
  /\ sent' = notifyStatusUpdate(tabOf(c), newItem(tabOf(c)), now)
  /\ cycle' = 0
  /\ UNCHANGED <<now, supportsWebLocksApi, lock, pc, arg, result, cbCount,
                 outcome, returned, statusSubscribers>>
  /\ UNCHANGED <<refreshCallbackPromise, setup, apart>>
  /\ PeerReact

\* the callback resolves with tokens: the new status is saved and published
CallbackResolve(c, tokens) ==
  /\ pc[c] = "inflight"
  /\ ~Throws(tabOf(c))
  /\ setItem(tabOf(c), saveStatus(createNewStatus(tokens, now)))
  /\ sent' = notifyStatusUpdate(tabOf(c), newItem(tabOf(c)), now)
  /\ pc' = [pc EXCEPT ![c] = "saved"]
  /\ outcome' = [outcome EXCEPT ![c] = "resolved"]
  /\ returned' = [returned EXCEPT ![c] = tokens]
  /\ arg' = [arg EXCEPT ![c] = ""]
  /\ handle' = [handle EXCEPT ![c] = FALSE]
  /\ cycle' = 0
  /\ UNCHANGED <<now, supportsWebLocksApi, lock, result, cbCount,
                 statusSubscribers>>
  /\ UNCHANGED <<refreshCallbackPromise, setup, apart>>
  /\ PeerReact

\* variant: the catch handler rethrows the error it caught
RejectionError_rethrown(error) == error

\* the error getAccessToken() rejects with when the callback rejected
RejectionError(error) == LOGGED_OUT_ERROR

\* variant: the catch handler also deletes the stored status
CallbackReject_clears(c) ==
  /\ pc[c] = "inflight"
  /\ pc' = [pc EXCEPT ![c] = "done"]
  /\ result' = [result EXCEPT ![c] = Error(LOGGED_OUT_ERROR)]
  /\ outcome' = [outcome EXCEPT ![c] = IF handle[c] THEN "denied"
                                                    ELSE "rejected"]
  /\ arg' = [arg EXCEPT ![c] = ""]
  /\ handle' = [handle EXCEPT ![c] = FALSE]
  /\ lock' = Release(c)
  /\ cycle' = 0
  /\ setItem(tabOf(c), removeItem(tabOf(c)))
  /\ sent' = notifyStatusUpdate(tabOf(c), newItem(tabOf(c)), now)
  /\ UNCHANGED <<now, supportsWebLocksApi, cbCount, returned,
                 statusSubscribers>>
  /\ UNCHANGED <<refreshCallbackPromise, setup, apart>>
  /\ PeerReact

\* the callback rejects: the catch handler logs and throws
CallbackReject(c) ==
  /\ pc[c] = "inflight"
  /\ pc' = [pc EXCEPT ![c] = "done"]
  /\ result' = [result EXCEPT ![c] = Error(RejectionError(CALLBACK_ERROR))]
  /\ outcome' = [outcome EXCEPT ![c] = IF handle[c] THEN "denied"
                                                    ELSE "rejected"]
  /\ arg' = [arg EXCEPT ![c] = ""]
  /\ handle' = [handle EXCEPT ![c] = FALSE]
  /\ lock' = Release(c)
  /\ cycle' = 0
  /\ sent' = <<>>
  /\ UNCHANGED <<now, storage, supportsWebLocksApi, cbCount, returned,
                 statusSubscribers>>
  /\ UNCHANGED <<refreshCallbackPromise, others, setup, apart>>
  /\ PeerReact

\* the callback in flight resolves with tokens and a subscriber throws while
\* the saved status is published: the throw leaves the then-handler, forEach
\* calls no later subscriber, and the catch handler of refresh() rejects the
\* call
SubscriberThrows(c, tokens) ==
  /\ pc[c] = "inflight"
  /\ Throws(tabOf(c))
  /\ setItem(tabOf(c), saveStatus(createNewStatus(tokens, now)))
  /\ sent' = notifyStatusUpdate(tabOf(c), newItem(tabOf(c)), now)
  /\ pc' = [pc EXCEPT ![c] = "done"]
  /\ result' = [result EXCEPT ![c] = Error(RejectionError(SUBSCRIBER_ERROR))]
  /\ outcome' = [outcome EXCEPT ![c] = "resolved"]
  /\ returned' = [returned EXCEPT ![c] = tokens]
  /\ arg' = [arg EXCEPT ![c] = ""]
  /\ handle' = [handle EXCEPT ![c] = FALSE]
  /\ lock' = Release(c)
  /\ cycle' = 0
  /\ UNCHANGED <<now, supportsWebLocksApi, cbCount, statusSubscribers>>
  /\ UNCHANGED <<refreshCallbackPromise, setup, apart>>
  /\ PeerReact

\* inside the lock getStatus() throws on the stored text: the exception
\* leaves getAccessTokenNonSynchronized and rejects the call
SyntaxErrorThrown(c) ==
  /\ Granted(c)
  /\ getStatusThrows(getItem(tabOf(c)))
  /\ pc' = [pc EXCEPT ![c] = "done"]
  /\ result' = [result EXCEPT ![c] = Error(SYNTAX_ERROR)]
  /\ returned' = [returned EXCEPT ![c] = NoTokens]
  /\ lock' = Release(c)
  /\ sent' = <<>>
  /\ UNCHANGED <<now, storage, supportsWebLocksApi, arg, handle, cbCount,
                 outcome, cycle, statusSubscribers>>
  /\ UNCHANGED <<refreshCallbackPromise, others, setup, apart>>
  /\ PeerReact

\* something other than the service stores a text that is not JSON under
\* the storage key
CorruptRecord ==
  /\ storage' = <<UnparsableText>>
  /\ cycle' = 0
  /\ sent' = <<>>
  /\ UNCHANGED <<now, supportsWebLocksApi, lock, pc, arg, handle, result,
                 cbCount, outcome, returned, statusSubscribers>>
  /\ UNCHANGED <<refreshCallbackPromise, others, setup, apart>>
  /\ PeerReact

Next ==
  \/ Tick
  \/ \E tab \in Tabs, tokens \in Tokens : SetStatus(tab, tokens)
  \/ \E tab \in Tabs : SetLoggedOut(tab)
  \/ \E c \in Calls : GetAccessToken(c)
  \/ \E c \in Calls : FastPath(c)
  \/ \E c \in Calls : ThrowLoggedOut(c)
  \/ \E c \in Calls : InvokeCallback(c)
  \/ \E c \in Calls : CallbackLogout(c)
  \/ \E c \in Calls, tokens \in Tokens : CallbackResolve(c, tokens)
  \/ \E c \in Calls : CallbackReject(c)

\* tabs that never subscribe to status updates
Spec == Init /\ [][Next]_vars

\* all tabs subscribe to status updates while the host of the first tab logs
\* in and out and the first tab calls getAccessToken()
NextSubs ==
  \/ Tick
  \/ \E tokens \in Tokens : SetStatus(1, tokens)
  \/ SetLoggedOut(1)
  \/ \E tab \in Tabs : SubscribeStatusUpdates(tab)
  \/ GetAccessToken(1)
  \/ FastPath(1)
  \/ ThrowLoggedOut(1)
  \/ InvokeCallback(1)
  \/ CallbackLogout(1)
  \/ \E tokens \in Tokens : CallbackResolve(1, tokens)
  \/ CallbackReject(1)

SpecSubs == Init /\ [][NextSubs]_vars

\* the first tab on its own: its host logs in and out while its
\* getAccessToken() calls refresh
NextAlone ==
  \/ Tick
  \/ \E tokens \in Tokens : SetStatus(1, tokens)
  \/ SetLoggedOut(1)
  \/ GetAccessToken(1)
  \/ FastPath(1)
  \/ ThrowLoggedOut(1)
  \/ InvokeCallback(1)
  \/ CallbackLogout(1)
  \/ \E tokens \in Tokens : CallbackResolve(1, tokens)
  \/ CallbackReject(1)

SpecAlone == Init /\ [][NextAlone]_vars

\* the first tab on its own, with subscribers
NextHub ==
  \/ NextAlone
  \/ SubscribeStatusUpdates(1)

SpecHub == Init /\ [][NextHub]_vars

\* the first tab on its own, with a storage item that something else may
\* overwrite with a text that is not JSON
NextMalformed ==
  \/ NextAlone
  \/ CorruptRecord
  \/ SyntaxErrorThrown(1)
  \/ SubscribeStatusUpdates(1)

SpecMalformed == Init /\ [][NextMalformed]_vars

\* the first tab alone, with plain subscribers and the peer-tab broadcaster
NextPeer == NextAlone \/ SubscribeStatusUpdates(1) \/ SubscribeToPeerTabUpdates(1)

SpecPeer == Init /\ [][NextPeer]_vars

\* the first tab on its own; the subscriber it registers first is one that
\* throws whenever it is called
InitThrows ==
  /\ now = 0
  /\ storage = <<>>
  /\ supportsWebLocksApi = TRUE
  /\ lock = [k \in LockIds |-> 0]
  /\ pc = [c \in Calls |-> "idle"]
  /\ arg = [c \in Calls |-> ""]
  /\ handle = [c \in Calls |-> FALSE]
  /\ result = [c \in Calls |-> NoResult]
  /\ cbCount = [c \in Calls |-> 0]
  /\ outcome = [c \in Calls |-> "none"]
  /\ returned = [c \in Calls |-> NoTokens]
  /\ cycle = 0
  /\ statusSubscribers = [tab \in Tabs |-> 0]
  /\ sent = <<>>
  /\ refreshCallbackPromise = [tab \in Tabs |-> "resolved"]
  /\ callTab = [c \in Calls |-> c]
  /\ storageKey = [tab \in Tabs |-> LOCAL_STORAGE_STATUS_KEY]
  /\ lockName = [tab \in Tabs |-> GET_TOKEN_LOCK]
  /\ thrower = [tab \in Tabs |-> IF tab = 1 THEN 1 ELSE 0]
  /\ inMemory = FALSE
  /\ others = <<>>
  /\ peerSub = [tab \in Tabs |-> 0]
  /\ peerLoggedIn = [tab \in Tabs |-> FALSE]
  /\ posted = <<>>
  /\ Elsewhere

NextThrows ==
  \/ NextHub
  \/ \E tokens \in Tokens : SubscriberThrows(1, tokens)

SpecThrows == InitThrows /\ [][NextThrows]_vars

\* the module-level service of a process without a window, on the in-memory
\* fallback storage: the host logs in and out and subscribes
InitMemory ==
  /\ now = 0
  /\ storage = <<>>
  /\ supportsWebLocksApi = TRUE
  /\ lock = [k \in LockIds |-> 0]
  /\ pc = [c \in Calls |-> "idle"]
  /\ arg = [c \in Calls |-> ""]
  /\ handle = [c \in Calls |-> FALSE]
  /\ result = [c \in Calls |-> NoResult]
  /\ cbCount = [c \in Calls |-> 0]
  /\ outcome = [c \in Calls |-> "none"]
  /\ returned = [c \in Calls |-> NoTokens]
  /\ cycle = 0
  /\ statusSubscribers = [tab \in Tabs |-> 0]
  /\ sent = <<>>
  /\ refreshCallbackPromise = [tab \in Tabs |-> "resolved"]
  /\ callTab = [c \in Calls |-> c]
  /\ storageKey = [tab \in Tabs |-> LOCAL_STORAGE_STATUS_KEY]
  /\ lockName = [tab \in Tabs |-> GET_TOKEN_LOCK]
  /\ thrower = [tab \in Tabs |-> 0]
  /\ inMemory = TRUE
  /\ others = <<>>
  /\ peerSub = [tab \in Tabs |-> 0]
  /\ peerLoggedIn = [tab \in Tabs |-> FALSE]
  /\ posted = <<>>
  /\ Elsewhere

NextMemory ==
  \/ Tick
  \/ \E tokens \in Tokens : SetStatus(1, tokens)
  \/ SetLoggedOut(1)
  \/ SubscribeStatusUpdates(1)

SpecMemory == InitMemory /\ [][NextMemory]_vars

\* ------------------------------------------------------------------ Timer
\* a Timer has just been constructed; the token service is not used
InitTimer ==
  /\ now = 0
  /\ storage = <<>>
  /\ supportsWebLocksApi = TRUE
  /\ lock = [k \in LockIds |-> 0]
  /\ pc = [c \in Calls |-> "idle"]
  /\ arg = [c \in Calls |-> ""]
  /\ handle = [c \in Calls |-> FALSE]
  /\ result = [c \in Calls |-> NoResult]
  /\ cbCount = [c \in Calls |-> 0]
  /\ outcome = [c \in Calls |-> "none"]
  /\ returned = [c \in Calls |-> NoTokens]
  /\ cycle = 0
  /\ statusSubscribers = [tab \in Tabs |-> 0]
  /\ sent = <<>>
  /\ refreshCallbackPromise = [tab \in Tabs |-> "resolved"]
  /\ callTab = [c \in Calls |-> c]
  /\ storageKey = [tab \in Tabs |-> LOCAL_STORAGE_STATUS_KEY]
  /\ lockName = [tab \in Tabs |-> GET_TOKEN_LOCK]
  /\ thrower = [tab \in Tabs |-> 0]
  /\ inMemory = FALSE
  /\ others = <<>>
  /\ peerSub = [tab \in Tabs |-> 0]
  /\ peerLoggedIn = [tab \in Tabs |-> FALSE]
  /\ posted = <<>>
  /\ \E ttlMs \in 0..MaxTtlMs : timer = NewTimer(ttlMs)
  /\ leaderTabs = <<>>
  /\ authChannel = <<>>

\* the token service's variables
service ==
  <<now, storage, supportsWebLocksApi, lock, pc, arg, handle, result, cbCount,
    outcome, returned, cycle, statusSubscribers, sent, refreshCallbackPromise,
    others, peerSub, peerLoggedIn, posted, setup>>

\* the pending timeout fires, late milliseconds after its delay has passed:
\* the callback is called when this.ttlMs <= 0, else schedule() is
TimerTimeout(late) ==
  /\ timer.id >= 0
  /\ LET t == [timer EXCEPT !.elapsed = @ + timer.id + late, !.id = -1]
     IN  timer' = IF t.ttlMs <= 0
                  THEN [t EXCEPT !.callbacks = @ + 1]
                  ELSE schedule(t)
  /\ UNCHANGED <<service, leaderTabs, authChannel>>

\* variant: cancel() clears the timeout the constructor scheduled
TimerCancel_first ==
  /\ ~timer.cancelled
  /\ timer' = [timer EXCEPT !.id = IF Len(timer.scheduled) = 1 THEN -1 ELSE @,
                            !.cancelled = TRUE]
  /\ UNCHANGED <<service, leaderTabs, authChannel>>

\* cancel(): clearTimeout(this.id)
TimerCancel ==
  /\ ~timer.cancelled
  /\ timer' = [timer EXCEPT !.id = -1, !.cancelled = TRUE]
  /\ UNCHANGED <<service, leaderTabs, authChannel>>

NextTimer ==
  \/ \E late \in 0..MaxLateMs : TimerTimeout(late)
  \/ TimerCancel

SpecTimer == InitTimer /\ [][NextTimer]_vars

\* ------------------------------------------------------- without Web Locks
\* a browser without the Web Locks API: every instance falls back to its own
\* Mutex. The two calls run either in two tabs or both in the first tab; the
\* host of the first tab logs in and out.
InitFallback ==
  /\ now = 0
  /\ storage = <<>>
  /\ supportsWebLocksApi = FALSE
  /\ lock = [k \in LockIds |-> 0]
  /\ pc = [c \in Calls |-> "idle"]
  /\ arg = [c \in Calls |-> ""]
  /\ handle = [c \in Calls |-> FALSE]
  /\ result = [c \in Calls |-> NoResult]
  /\ cbCount = [c \in Calls |-> 0]
  /\ outcome = [c \in Calls |-> "none"]
  /\ returned = [c \in Calls |-> NoTokens]
  /\ cycle = 0
  /\ statusSubscribers = [tab \in Tabs |-> 0]
  /\ sent = <<>>
  /\ refreshCallbackPromise = [tab \in Tabs |-> "resolved"]
  /\ callTab \in {[c \in Calls |-> c], [c \in Calls |-> 1]}
  /\ storageKey = [tab \in Tabs |-> LOCAL_STORAGE_STATUS_KEY]
  /\ lockName = [tab \in Tabs |-> GET_TOKEN_LOCK]
  /\ thrower = [tab \in Tabs |-> 0]
  /\ inMemory = FALSE
  /\ others = <<>>
  /\ peerSub = [tab \in Tabs |-> 0]
  /\ peerLoggedIn = [tab \in Tabs |-> FALSE]
  /\ posted = <<>>
  /\ Elsewhere

NextFallback ==
  \/ Tick
  \/ \E tokens \in Tokens : SetStatus(1, tokens)
  \/ SetLoggedOut(1)
  \/ \E c \in {1, 2} : GetAccessToken(c)
  \/ \E c \in {1, 2} : FastPath(c)
  \/ \E c \in {1, 2} : ThrowLoggedOut(c)
  \/ \E c \in {1, 2} : InvokeCallback(c)
  \/ \E c \in {1, 2} : CallbackLogout(c)
  \/ \E c \in {1, 2}, tokens \in Tokens : CallbackResolve(c, tokens)
  \/ \E c \in {1, 2} : CallbackReject(c)

SpecFallback == InitFallback /\ [][NextFallback]_vars

\* ---------------------------------------------------------- two instances
\* the instance of the first tab is constructed with the default storage key
\* and lock name, the instances of the other tabs with OTHER_STORAGE_KEY and
\* OTHER_LOCK; all use localStorage and every tab has subscribed once. The
\* hosts of the first two tabs log in and out and call getAccessToken(); the
\* clock stands still, so only the Tokens with the later expiry are handed
\* out.
LongLived ==
  {tokens \in Tokens : /\ tokens.accessTokenExp = LongExp
                       /\ tokens.refreshTokenExp = LongExp}

InitInstances ==
  /\ now = 0
  /\ storage = <<>>
  /\ supportsWebLocksApi = TRUE
  /\ lock = [k \in LockIds |-> 0]
  /\ pc = [c \in Calls |-> "idle"]
  /\ arg = [c \in Calls |-> ""]
  /\ handle = [c \in Calls |-> FALSE]
  /\ result = [c \in Calls |-> NoResult]
  /\ cbCount = [c \in Calls |-> 0]
  /\ outcome = [c \in Calls |-> "none"]
  /\ returned = [c \in Calls |-> NoTokens]
  /\ cycle = 0
  /\ statusSubscribers = [tab \in Tabs |-> 1]
  /\ sent = <<>>
  /\ refreshCallbackPromise = [tab \in Tabs |-> "resolved"]
  /\ callTab = [c \in Calls |-> c]
  /\ storageKey = [tab \in Tabs |-> IF tab = 1 THEN LOCAL_STORAGE_STATUS_KEY
                                     ELSE OTHER_STORAGE_KEY]
  /\ lockName = [tab \in Tabs |-> IF tab = 1 THEN GET_TOKEN_LOCK
                                   ELSE OTHER_LOCK]
  /\ thrower = [tab \in Tabs |-> 0]
  /\ inMemory = FALSE
  /\ others = <<>>
  /\ peerSub = [tab \in Tabs |-> 0]
  /\ peerLoggedIn = [tab \in Tabs |-> FALSE]
  /\ posted = <<>>
  /\ Elsewhere

NextInstances ==
  \/ \E tab \in {1, 2}, tokens \in LongLived : SetStatus(tab, tokens)
  \/ \E tab \in {1, 2} : SetLoggedOut(tab)
  \/ \E c \in {1, 2} : GetAccessToken(c)
  \/ \E c \in {1, 2} : FastPath(c)
  \/ \E c \in {1, 2} : ThrowLoggedOut(c)
  \/ \E c \in {1, 2} : InvokeCallback(c)
  \/ \E c \in {1, 2} : CallbackLogout(c)
  \/ \E c \in {1, 2}, tokens \in LongLived : CallbackResolve(c, tokens)
  \/ \E c \in {1, 2} : CallbackReject(c)

SpecInstances == InitInstances /\ [][NextInstances]_vars

\* ---------------------------------------------------------------- fairness
\* a session some host has stored, or none; two tabs keep calling
\* getAccessToken() and the callback may return any Tokens or reject
InitLive ==
  /\ now = 0
  /\ storage \in {<<>>} \cup {saveStatus(createNewStatus(tokens, 0)) :
                                 tokens \in Tokens}
  /\ supportsWebLocksApi = TRUE
  /\ lock = [k \in LockIds |-> 0]
  /\ pc = [c \in Calls |-> "idle"]
  /\ arg = [c \in Calls |-> ""]
  /\ handle = [c \in Calls |-> FALSE]
  /\ result = [c \in Calls |-> NoResult]
  /\ cbCount = [c \in Calls |-> 0]
  /\ outcome = [c \in Calls |-> "none"]
  /\ returned = [c \in Calls |-> NoTokens]
  /\ cycle = 0
  /\ statusSubscribers = [tab \in Tabs |-> 0]
  /\ sent = <<>>
  /\ refreshCallbackPromise = [tab \in Tabs |-> "resolved"]
  /\ callTab = [c \in Calls |-> c]
  /\ storageKey = [tab \in Tabs |-> LOCAL_STORAGE_STATUS_KEY]
  /\ lockName = [tab \in Tabs |-> GET_TOKEN_LOCK]
  /\ thrower = [tab \in Tabs |-> 0]
  /\ inMemory = FALSE
  /\ others = <<>>
  /\ peerSub = [tab \in Tabs |-> 0]
  /\ peerLoggedIn = [tab \in Tabs |-> FALSE]
  /\ posted = <<>>
  /\ Elsewhere

\* the lock is granted to the call and its section runs up to the next
\* suspension point
Proceed(c) == FastPath(c) \/ ThrowLoggedOut(c) \/ InvokeCallback(c)

\* the promise returned by the call's refresh callback settles
Settle(c) == (\E tokens \in Tokens : CallbackResolve(c, tokens)) \/ CallbackReject(c)

NextLive ==
  \/ Tick
  \/ \E c \in {1, 2} : GetAccessToken(c)
  \/ \E c \in {1, 2} : Proceed(c)
  \/ \E c \in {1, 2} : CallbackLogout(c)
  \/ \E c \in {1, 2} : Settle(c)

\* the lock queue is fair: a request that can be granted again and again is
\* granted; the event loop runs what is ready; every refresh callback
\* invocation settles
Fairness ==
  \A c \in {1, 2} : SF_vars(Proceed(c)) /\ WF_vars(Settle(c))

SpecLive == InitLive /\ [][NextLive]_vars /\ Fairness

\* --------------------------------------------------- module-level service
\* the module-level TokenService of one tab: the refresh callback is
\* registered with setRefreshCallback() some time after the module is loaded,
\* and the callback is given no logout handle
InitModule ==
  /\ now = 0
  /\ storage = <<>>
  /\ supportsWebLocksApi = TRUE
  /\ lock = [k \in LockIds |-> 0]
  /\ pc = [c \in Calls |-> "idle"]
  /\ arg = [c \in Calls |-> ""]
  /\ handle = [c \in Calls |-> FALSE]
  /\ result = [c \in Calls |-> NoResult]
  /\ cbCount = [c \in Calls |-> 0]
  /\ outcome = [c \in Calls |-> "none"]
  /\ returned = [c \in Calls |-> NoTokens]
  /\ cycle = 0
  /\ statusSubscribers = [tab \in Tabs |-> 0]
  /\ sent = <<>>
  /\ refreshCallbackPromise = [tab \in Tabs |-> "pending"]
  /\ callTab = [c \in Calls |-> c]
  /\ storageKey = [tab \in Tabs |-> LOCAL_STORAGE_STATUS_KEY]
  /\ lockName = [tab \in Tabs |-> GET_TOKEN_LOCK]
  /\ thrower = [tab \in Tabs |-> 0]
  /\ inMemory = FALSE
  /\ others = <<>>
  /\ peerSub = [tab \in Tabs |-> 0]
  /\ peerLoggedIn = [tab \in Tabs |-> FALSE]
  /\ posted = <<>>
  /\ Elsewhere

NextModule ==
  \/ Tick
  \/ \E tokens \in Tokens : SetStatus(1, tokens)
  \/ SetLoggedOut(1)
  \/ SetRefreshCallback(1)
  \/ GetAccessToken(1)
  \/ FastPath(1)
  \/ ThrowLoggedOut(1)
  \/ AwaitRefreshCallback(1)
  \/ ResumeRefresh(1)
  \/ InvokeCallback(1)
  \/ \E tokens \in Tokens : CallbackResolve(1, tokens)
  \/ CallbackReject(1)

SpecModule == InitModule /\ [][NextModule]_vars

\* ------------------------------------------------ leader-scheduler variant
\* every tab has loaded the module on an empty storage; no refresh callback
\* is registered yet and no tab is the leader
InitLeader ==
  /\ now = 0
  /\ storage = <<>>
  /\ supportsWebLocksApi = TRUE
  /\ lock = [k \in LockIds |-> 0]
  /\ pc = [c \in Calls |-> "idle"]
  /\ arg = [c \in Calls |-> ""]
  /\ handle = [c \in Calls |-> FALSE]
  /\ result = [c \in Calls |-> NoResult]
  /\ cbCount = [c \in Calls |-> 0]
  /\ outcome = [c \in Calls |-> "none"]
  /\ returned = [c \in Calls |-> NoTokens]
  /\ cycle = 0
  /\ statusSubscribers = [tab \in Tabs |-> 0]
  /\ sent = <<>>
  /\ refreshCallbackPromise = [tab \in Tabs |-> "pending"]
  /\ callTab = [c \in Calls |-> c]
  /\ storageKey = [tab \in Tabs |-> LOCAL_STORAGE_STATUS_KEY]
  /\ lockName = [tab \in Tabs |-> GET_TOKEN_LOCK]
  /\ thrower = [tab \in Tabs |-> 0]
  /\ inMemory = FALSE
  /\ others = <<>>
  /\ peerSub = [tab \in Tabs |-> 0]
  /\ peerLoggedIn = [tab \in Tabs |-> FALSE]
  /\ posted = <<>>
  /\ timer = <<>>
  /\ leaderTabs = [tab \in Tabs |-> LeaderTabInit]
  /\ authChannel = [tab \in Tabs |-> <<>>]

\* what the leader-scheduler variant does not touch
classService ==
  <<supportsWebLocksApi, lock, pc, arg, handle, result, cbCount, outcome,
    returned, cycle, others, peerSub, peerLoggedIn, posted, setup, timer>>

\* time passes; an interval that is due fires before the clock moves on
LeaderTick ==
  /\ now < MaxLeaderNow
  /\ \A tab \in Tabs : leaderTabs[tab].refreshInterval # now
  /\ now' = now + 1
  /\ sent' = <<>>
  /\ UNCHANGED <<storage, statusSubscribers, refreshCallbackPromise,
                 leaderTabs, authChannel, classService>>

\* elector.awaitLeadership() resolves in tab, no tab being the leader:
\* scheduleRefreshIfLeader()
AwaitLeadership(tab) ==
  /\ \A t \in Tabs : ~leaderTabs[t].isLeader
  /\ leaderTabs' =
       [leaderTabs EXCEPT ![tab] =
          scheduleRefreshIfLeader([@ EXCEPT !.isLeader = TRUE], now)]
  /\ sent' = <<>>
  /\ UNCHANGED <<now, storage, statusSubscribers, refreshCallbackPromise,
                 authChannel, classService>>

\* updateStatus(newTokens) in tab: updateLocalStatus, the pending
\* accessTokenPromise is resolved with newTokens.accessToken and renewed,
\* scheduleRefreshIfLeader, and the serialized currentStatus is posted
UpdateStatus(tab, newTokens) ==
  /\ \A t \in Tabs \ {tab} : Len(authChannel[t]) < MaxInbox
  /\ LET rec == leaderTabs[tab]
         u == updateLocalStatus(rec.currentStatus, newTokens, now)
     IN  /\ leaderTabs' =
              [leaderTabs EXCEPT ![tab] =
                 scheduleRefreshIfLeader(
                   settle([rec EXCEPT !.currentStatus = u.currentStatus,
                                      !.invocations = 0],
                          Resolved(newTokens.accessToken,
                                   newTokens.accessTokenExp)),
                   now)]
         /\ storage' = IF u.changed
                       THEN <<LeaderStringify(u.currentStatus)>>
                       ELSE storage
         /\ sent' = leaderNotify(tab, u.changed, u.currentStatus)
         /\ authChannel' =
              postMessage(tab, [type |-> MSG_STATUS_CHANGE,
                                text |-> LeaderStringify(u.currentStatus)])
  /\ UNCHANGED <<now, statusSubscribers, refreshCallbackPromise,
                 classService>>

\* what setLoggedOut() and handleLogoutMessage() do in tab before the
\* message: clearInterval, removeItem, updateLocalStatus(BASE_STATUS), the
\* pending accessTokenPromise is rejected with LOGGED_OUT_ERROR and renewed
LeaderLogout(tab) ==
  LET rec == leaderTabs[tab]
      u == updateLocalStatus(rec.currentStatus, LeaderBaseStatus, now)
  IN  /\ leaderTabs' =
           [leaderTabs EXCEPT ![tab] =
              settle([rec EXCEPT !.currentStatus = u.currentStatus,
                                 !.refreshInterval = -1,
                                 !.invocations = 0],
                     Rejected(LOGGED_OUT_ERROR))]
      /\ storage' = IF u.changed
                    THEN <<LeaderStringify(u.currentStatus)>>
                    ELSE <<>>
      /\ sent' = leaderNotify(tab, u.changed, u.currentStatus)

\* setLoggedOut() in tab
LeaderSetLoggedOut(tab) ==
  /\ \A t \in Tabs \ {tab} : Len(authChannel[t]) < MaxInbox
  /\ LeaderLogout(tab)
  /\ authChannel' = postMessage(tab, [type |-> MSG_LOGOUT, text |-> <<>>])
  /\ UNCHANGED <<now, statusSubscribers, refreshCallbackPromise,
                 classService>>

\* handleStatusChangeMessage(message) on the message at the head of tab's
\* inbox: nothing when its text is the tab's currentStatusJSON; else
\* updateLocalStatus(status), the pending accessTokenPromise is resolved
\* with status.accessToken and renewed, scheduleRefreshIfLeader
HandleStatusChangeMessage(tab) ==
  /\ authChannel[tab] # <<>>
  /\ Head(authChannel[tab]).type = MSG_STATUS_CHANGE
  /\ authChannel' = [authChannel EXCEPT ![tab] = Tail(@)]
  /\ LET rec == leaderTabs[tab]
         newStatusJSON == Head(authChannel[tab]).text
         status == LeaderParse(newStatusJSON)
         u == updateLocalStatus(rec.currentStatus, status, now)
     IN  IF LeaderStringify(rec.currentStatus) # newStatusJSON
         THEN /\ leaderTabs' =
                   [leaderTabs EXCEPT ![tab] =
                      scheduleRefreshIfLeader(
                        settle([rec EXCEPT !.currentStatus = u.currentStatus,
                                           !.invocations = 0],
                               Resolved(status.accessToken,
                                        status.accessTokenExp)),
                        now)]
              /\ storage' = IF u.changed
                            THEN <<LeaderStringify(u.currentStatus)>>
                            ELSE storage
              /\ sent' = leaderNotify(tab, u.changed, u.currentStatus)
         ELSE /\ sent' = <<>>
              /\ UNCHANGED <<leaderTabs, storage>>
  /\ UNCHANGED <<now, statusSubscribers, refreshCallbackPromise,
                 classService>>

\* handleLogoutMessage() on the message at the head of tab's inbox
HandleLogoutMessage(tab) ==
  /\ authChannel[tab] # <<>>
  /\ Head(authChannel[tab]).type = MSG_LOGOUT
  /\ authChannel' = [authChannel EXCEPT ![tab] = Tail(@)]
  /\ LeaderLogout(tab)
  /\ UNCHANGED <<now, statusSubscribers, refreshCallbackPromise,
                 classService>>

\* the refresh callback is invoked n more times with
\* currentStatus.refreshToken || ""
invoke(rec, n) == [rec EXCEPT !.invocations = Min(2, @ + n)]

\* refreshWhenExpired(): when the access token's ttl is within
\* REFRESH_TRESHOLD_TTL the callback is invoked, as soon as it is registered
refreshWhenExpired(rec, registered, t) ==
  IF ttl(rec.currentStatus.accessTokenExp, t) <= REFRESH_TRESHOLD_TTL
  THEN (IF registered THEN invoke(rec, 1)
        ELSE [rec EXCEPT !.deferred = Min(2, @ + 1)])
  ELSE rec

\* tab's interval fires and is due again a second later
IntervalFires(tab) ==
  /\ leaderTabs[tab].refreshInterval = now
  /\ leaderTabs' =
       [leaderTabs EXCEPT ![tab] =
          refreshWhenExpired(
            [@ EXCEPT !.refreshInterval = now + IntervalTicks],
            refreshCallbackPromise[tab] = "resolved", now)]
  /\ sent' = <<>>
  /\ UNCHANGED <<now, storage, statusSubscribers, refreshCallbackPromise,
                 authChannel, classService>>

\* setRefreshCallback(refreshCallback) in tab: the invocations waiting for
\* refreshCallbackPromise are made
LeaderSetRefreshCallback(tab) ==
  /\ refreshCallbackPromise[tab] = "pending"
  /\ refreshCallbackPromise' = [refreshCallbackPromise EXCEPT ![tab] = "resolved"]
  /\ leaderTabs' =
       [leaderTabs EXCEPT ![tab] =
          [invoke(@, @.deferred) EXCEPT !.deferred = 0]]
  /\ sent' = <<>>
  /\ UNCHANGED <<now, storage, statusSubscribers, authChannel, classService>>

\* getAccessToken() in tab: currentStatus.accessToken when the ttl of
\* currentStatus.accessTokenExp is at least MIN_TTL, else accessTokenPromise
LeaderGetAccessToken(tab) ==
  /\ ~leaderTabs[tab].waiting
  /\ LET rec == leaderTabs[tab]
     IN  leaderTabs' =
           [leaderTabs EXCEPT ![tab] =
              IF ttl(rec.currentStatus.accessTokenExp, now) >= MIN_TTL
              THEN [rec EXCEPT !.answer =
                      Resolved(rec.currentStatus.accessToken,
                               rec.currentStatus.accessTokenExp)]
              ELSE [rec EXCEPT !.waiting = TRUE, !.answer = NoAnswer]]
  /\ sent' = <<>>
  /\ UNCHANGED <<now, storage, statusSubscribers, refreshCallbackPromise,
                 authChannel, classService>>

\* two tabs without subscribers: the host of tab 1 logs in and out, both
\* hosts ask for access tokens
NextLeader ==
  \/ LeaderTick
  \/ \E tab \in Tabs : AwaitLeadership(tab)
  \/ \E newTokens \in LeaderTokens : UpdateStatus(1, newTokens)
  \/ LeaderSetLoggedOut(1)
  \/ \E tab \in Tabs : HandleStatusChangeMessage(tab)
  \/ \E tab \in Tabs : HandleLogoutMessage(tab)
  \/ \E tab \in Tabs : IntervalFires(tab)
  \/ \E tab \in Tabs : LeaderSetRefreshCallback(tab)
  \/ \E tab \in Tabs : LeaderGetAccessToken(tab)

SpecLeader == InitLeader /\ [][NextLeader]_vars

\* ---------------------------------------------------------- Scenario E
\* every tab calls getAccessToken() once while the stored access token is
\* invalid and the refresh token stays valid; the callback always succeeds
\* with a long-lived access token; the host does nothing else
InitE ==
  /\ now \in 0..MaxNow
  /\ \E tokens \in Tokens, written \in 0..MaxNow :
       /\ written <= now
       /\ tokens.refreshToken # ""
       /\ tokens.refreshTokenExp = LongExp
       /\ ~createNewStatus(tokens, now).accessTokenValid
       /\ storage = saveStatus(createNewStatus(tokens, written))
  /\ supportsWebLocksApi = TRUE
  /\ lock = [k \in LockIds |-> 0]
  /\ pc = [c \in Calls |-> "idle"]
  /\ arg = [c \in Calls |-> ""]
  /\ handle = [c \in Calls |-> FALSE]
  /\ result = [c \in Calls |-> NoResult]
  /\ cbCount = [c \in Calls |-> 0]
  /\ outcome = [c \in Calls |-> "none"]
  /\ returned = [c \in Calls |-> NoTokens]
  /\ cycle = 0
  /\ statusSubscribers = [tab \in Tabs |-> 0]
  /\ sent = <<>>
  /\ refreshCallbackPromise = [tab \in Tabs |-> "resolved"]
  /\ callTab = [c \in Calls |-> c]
  /\ storageKey = [tab \in Tabs |-> LOCAL_STORAGE_STATUS_KEY]
  /\ lockName = [tab \in Tabs |-> GET_TOKEN_LOCK]
  /\ thrower = [tab \in Tabs |-> 0]
  /\ inMemory = FALSE
  /\ others = <<>>
  /\ peerSub = [tab \in Tabs |-> 0]
  /\ peerLoggedIn = [tab \in Tabs |-> FALSE]
  /\ posted = <<>>
  /\ Elsewhere

NextE ==
  \/ Tick
  \/ \E c \in Calls : pc[c] = "idle" /\ GetAccessToken(c)
  \/ \E c \in Calls : FastPath(c)
  \/ \E c \in Calls : InvokeCallback(c)
  \/ \E c \in Calls, tokens \in Tokens :
       /\ tokens.accessToken # ""
       /\ tokens.accessTokenExp = LongExp
       /\ CallbackResolve(c, tokens)

SpecE == InitE /\ [][NextE]_vars

\* ------------------------------------------------------------- properties
\* the stored record, as the four token fields of the serialized text
StoredTokens ==
  IF storage = <<>> THEN NoTokens
  ELSE [accessToken |-> storage[1][1], accessTokenExp |-> storage[1][2],
        refreshToken |-> storage[1][3], refreshTokenExp |-> storage[1][4]]

\* the stored access token is non-empty with a remaining TTL of at least
\* MIN_TOKEN_TTL; the stored refresh token likewise
StoredAccessValid ==
  /\ StoredTokens.accessToken # ""
  /\ ttl(StoredTokens.accessTokenExp, now) >= MIN_TOKEN_TTL

StoredRefreshValid ==
  /\ StoredTokens.refreshToken # ""
  /\ ttl(StoredTokens.refreshTokenExp, now) >= MIN_TOKEN_TTL

\* the call is inside the section guarded by the lock
Inside(c) == pc[c] \in {"inflight", "saved"}

\* in this step the call reads the status inside the lock and acts on it
Reads(c) == pc[c] \in {"waiting", "saved"} /\ pc'[c] # pc[c]

C2_RefreshUnderLock ==
  /\ [](\A c \in Calls :
          Inside(c) => /\ lock[lockOf(c)] = c
                       /\ \A d \in Calls \ {c} : ~Inside(d))
  /\ [][\A c \in Calls :
          (pc[c] = "waiting" /\ pc'[c] # "waiting")
            => \A d \in Calls \ {c} : ~Inside(d)]_vars

\* a refresh has been persisted under the lock while another tab still waits
C2_Witness ==
  \E c, d \in Calls :
    /\ c # d
    /\ pc[c] = "saved" /\ lock[lockOf(c)] = c
    /\ pc[d] = "waiting"

\* C3: Scenario E. When every tab's call has settled, the callback was invoked
\* exactly once in total, by one call, every other call took the fast path,
\* and all calls resolved with the access token of the persisted record.
C3_ScenarioE ==
  (\A c \in Calls : pc[c] = "done")
    => /\ Cardinality({c \in Calls : cbCount[c] = 1}) = 1
       /\ \A c \in Calls : cbCount[c] <= 1
       /\ \A c \in Calls : result[c] = Value(StoredTokens.accessToken)

\* both tabs have settled, one after refreshing, one on the fast path
C3_Witness ==
  /\ \A c \in Calls : pc[c] = "done" /\ result[c].kind = "value"
  /\ \E c, d \in Calls : cbCount[c] = 1 /\ cbCount[d] = 0

\* C4: whenever getAccessToken() resolves, the value is the access token of
\* the record stored at that moment, is non-empty and has a remaining TTL of
\* at least MIN_TOKEN_TTL.
C4_ResolvesValidToken ==
  [][\A c \in Calls :
       (pc[c] # "done" /\ pc'[c] = "done" /\ result'[c].kind = "value")
         => /\ storage # <<>>
            /\ result'[c].token = StoredTokens.accessToken
            /\ StoredAccessValid]_vars

\* a call resolved with a token after a refresh of its own
C4_Witness ==
  \E c \in Calls :
    /\ pc[c] = "done" /\ result[c].kind = "value" /\ result[c].token # ""
    /\ cbCount[c] >= 1

\* C5: fast path. A call that reads a valid access token inside the lock
\* settles in that step with the stored access token, invokes no callback,
\* leaves the storage untouched, notifies no subscriber and leaves the lock
\* free; if it is the call's first read, the call invoked no callback at all.
C5_FastPath ==
  [][\A c \in Calls :
       (Reads(c) /\ StoredAccessValid)
         => /\ pc'[c] = "done"
            /\ result'[c] = Value(StoredTokens.accessToken)
            /\ cbCount' = cbCount
            /\ cycle' = cycle
            /\ pc[c] = "waiting" => cbCount'[c] = 0
            /\ storage' = storage
            /\ sent' = <<>>
            /\ lock'[lockOf(c)] = 0]_vars

\* a call of a tab with a subscriber has settled on the fast path
C5_Witness ==
  \E c \in Calls :
    /\ pc[c] = "done" /\ result[c].kind = "value" /\ cbCount[c] = 0
    /\ statusSubscribers[tabOf(c)] > 0
    /\ sent = <<>>

\* C6: a call that reads, inside the lock, a status with neither a valid
\* access token nor a valid refresh token fails with the LoggedOut error in
\* that step, and no callback is invoked.
C6_LoggedOutWithoutCallback ==
  [][\A c \in Calls :
       (Reads(c) /\ ~StoredAccessValid /\ ~StoredRefreshValid)
         => /\ pc'[c] = "done"
            /\ result'[c] = Error(LOGGED_OUT_ERROR)
            /\ cbCount' = cbCount
            /\ cycle' = cycle]_vars

\* a call has failed with LoggedOut on a stored refresh token that expired
C6_Witness ==
  \E c \in Calls :
    /\ pc[c] = "done" /\ result[c] = Error(LOGGED_OUT_ERROR)
    /\ cbCount[c] = 0
    /\ StoredTokens.refreshToken # "" /\ ~StoredRefreshValid

\* C7 as stated: from the empty status, getAccessToken() invokes the refresh
\* callback, with the empty refresh token.
C7_Original ==
  [][\A c \in Calls :
       (pc[c] = "waiting" /\ pc'[c] # "waiting" /\ storage = <<>>)
         => pc'[c] = "inflight" /\ arg'[c] = ""]_vars

\* C7, amended: from the empty status, getAccessToken() fails with the
\* LoggedOut error without invoking the refresh callback.
C7_EmptyStatusLoggedOut ==
  [][\A c \in Calls :
       (pc[c] = "waiting" /\ pc'[c] # "waiting" /\ storage = <<>>)
         => /\ pc'[c] = "done"
            /\ result'[c] = Error(LOGGED_OUT_ERROR)
            /\ cbCount'[c] = 0]_vars

\* a call made on the empty storage has failed with LoggedOut
C7_Witness ==
  \E c \in Calls :
    /\ storage = <<>> /\ now = 0
    /\ pc[c] = "done" /\ result[c] = Error(LOGGED_OUT_ERROR)
    /\ cbCount[c] = 0 /\ outcome[c] = "none"

\* C8: refresh success. The callback is invoked with the refresh token of the
\* stored record; when it resolves, the record stored is the Tokens it
\* returned; and a call that then re-reads that record with its access token
\* valid resolves with that access token.
C8_RefreshSuccess ==
  [][\A c \in Calls :
       /\ (pc[c] # "inflight" /\ pc'[c] = "inflight")
            => /\ storage # <<>>
               /\ arg'[c] = StoredTokens.refreshToken
       /\ (pc[c] = "inflight" /\ pc'[c] = "saved")
            => /\ storage' # <<>>
               /\ StoredTokens' = returned'[c]
       /\ (pc[c] = "saved" /\ pc'[c] # "saved"
             /\ StoredTokens = returned[c] /\ StoredAccessValid)
            => /\ pc'[c] = "done"
               /\ result'[c] = Value(returned[c].accessToken)]_vars

\* a call has resolved with the access token its one refresh persisted
C8_Witness ==
  \E c \in Calls :
    /\ pc[c] = "done" /\ outcome[c] = "resolved" /\ cbCount[c] = 1
    /\ result[c] = Value(StoredTokens.accessToken)
    /\ StoredTokens.refreshToken # ""

\* C9: when the callback rejected without invoking the logout handle, the
\* call rejects with the error the callback rejected with.
C9_PropagatesCallbackError ==
  \A c \in Calls :
    (pc[c] = "done" /\ outcome[c] = "rejected")
      => result[c] = Error(CALLBACK_ERROR)

C11_RefreshDenial ==
  [][\A c \in Calls :
       /\ (pc[c] = "inflight" /\ ~handle[c] /\ handle'[c])
            => /\ storage' = <<>>
               /\ getStatus(storage', now') = BASE_STATUS
       /\ (pc[c] = "inflight" /\ handle[c] /\ pc'[c] \notin {"inflight", "saved"})
            => /\ pc'[c] = "done"
               /\ result'[c] = Error(LOGGED_OUT_ERROR)
               /\ storage' = storage]_vars

\* a call has failed with LoggedOut after its callback invoked the logout
\* handle on a session that was logged in, and the record is gone
C11_Witness ==
  \E c \in Calls :
    /\ pc[c] = "done" /\ outcome[c] = "denied"
    /\ result[c] = Error(LOGGED_OUT_ERROR)
    /\ storage = <<>> /\ getStatus(storage, now) = BASE_STATUS

\* C12: whenever a call fails with the LoggedOut error, the getStatus() that
\* immediately follows returns loggedIn = false with an empty refresh token.
C12_LoggedOutTerminal ==
  [][\A c \in Calls :
       (pc[c] # "done" /\ pc'[c] = "done"
          /\ result'[c] = Error(LOGGED_OUT_ERROR))
         => /\ ~getStatus(storage', now').loggedIn
            /\ getStatus(storage', now').refreshToken = ""]_vars

\* C13 as stated: within one lock-held section of getAccessToken() the
\* refresh callback is invoked at most once, whatever Tokens it returns.
C13_Original == \A c \in Calls : cbCount[c] <= 1

\* C13, amended: within one lock-held section the callback is invoked once
\* for each status read that finds no valid access token while logged in.
\* After a successful refresh the call invokes the callback again exactly
\* when the record it re-reads has no valid access token and a valid refresh
\* token; when the re-read record is the one the callback returned and its
\* access token is valid, no further invocation is made.
C13_OncePerInvalidRead ==
  [][\A c \in Calls :
       /\ Reads(c)
            => (pc'[c] = "inflight"
                  <=> (~StoredAccessValid /\ StoredRefreshValid))
       /\ (pc[c] = "saved" /\ pc'[c] # "saved"
             /\ StoredTokens = returned[c]
             /\ accessTokenValid(returned[c], now))
            => /\ pc'[c] = "done"
               /\ cbCount'[c] = cbCount[c]
       /\ cbCount'[c] > cbCount[c]
            => Reads(c) /\ pc'[c] = "inflight"]_vars

\* the callback is in flight for the second time in one lock-held section,
\* on a stored record that still has no valid access token
C13_Witness ==
  \E c \in Calls :
    /\ pc[c] = "inflight" /\ cbCount[c] = 2
    /\ lock[lockOf(c)] = c
    /\ ~StoredAccessValid /\ StoredRefreshValid

\* C14: the lock is released on every exit path. A call that settles, with
\* a token or with an error, leaves its lock free in that step; a settled
\* call never holds a lock, and a lock is only ever held by a call that is
\* inside its guarded section, so the next waiter can be granted it.
C14_LockReleased ==
  /\ [](/\ \A c \in Calls :
             pc[c] \in {"idle", "done"} => \A k \in DOMAIN lock : lock[k] # c
        /\ \A k \in DOMAIN lock : lock[k] # 0 => Inside(lock[k]))
  /\ [][\A c \in Calls :
          (pc[c] # "done" /\ pc'[c] = "done") => lock'[lockOf(c)] = 0]_vars

\* after one call left the section on a rejected callback, the next waiter
\* has been granted the lock and has its own callback in flight
C14_Witness ==
  \E c, d \in Calls :
    /\ c # d
    /\ pc[c] = "done" /\ outcome[c] = "rejected"
    /\ pc[d] = "inflight" /\ lock[lockOf(d)] = d

\* the deliveries of this step are one per subscriber registered in tab, in
\* registration order, each carrying the status re-read after the step
OncePerSubscriber(tab) ==
  /\ Len(sent') = statusSubscribers[tab]
  /\ \A i \in 1..Len(sent') :
       /\ sent'[i].tab = tab /\ sent'[i].sub = i
       /\ sent'[i].status = getStatus(storage', now')

\* C15: notifications per refresh. When the callback of a call resolves, each
\* subscriber registered with the call's instance is notified exactly once,
\* with loggedIn = true when the Tokens returned carry a valid refresh token;
\* when the callback invokes the logout handle, each is notified exactly once
\* with loggedIn = false; no other step of the call notifies anyone, so the
\* rejection that follows the logout handle adds no second notification.
C15_NotifiedOnce ==
  [][\A c \in Calls :
       /\ (pc[c] = "inflight" /\ pc'[c] = "saved")
            => /\ OncePerSubscriber(tabOf(c))
               /\ \A i \in 1..Len(sent') :
                    sent'[i].status.loggedIn
                      = refreshTokenValid(returned'[c], now)
       /\ (pc[c] = "inflight" /\ ~handle[c] /\ handle'[c])
            => /\ OncePerSubscriber(tabOf(c))
               /\ \A i \in 1..Len(sent') : ~sent'[i].status.loggedIn
       /\ (pc'[c] # pc[c] /\ pc'[c] # "saved") => sent' = <<>>]_vars

\* the callback of a tab with a subscriber has just invoked the logout
\* handle: the subscriber was told loggedIn = false, once
C15_Witness ==
  \E c \in Calls :
    /\ pc[c] = "inflight" /\ handle[c]
    /\ statusSubscribers[tabOf(c)] > 0
    /\ Len(sent) = statusSubscribers[tabOf(c)]
    /\ \A i \in 1..Len(sent) : ~sent[i].status.loggedIn

\* C16: round trip. After setStatus(T), as long as the record is not written
\* again, getStatus() returns T's accessToken, accessTokenExp, refreshToken
\* and refreshTokenExp at any later time t, with accessTokenValid and
\* loggedIn being what those fields, t and MIN_TOKEN_TTL determine.
C16_RoundTrip ==
  [][\A tab \in Tabs, T \in Tokens :
       SetStatus(tab, T)
         => \A t \in now'..MaxNow :
              LET status == getStatus(storage', t)
              IN  /\ status.accessToken = T.accessToken
                  /\ status.accessTokenExp = T.accessTokenExp
                  /\ status.refreshToken = T.refreshToken
                  /\ status.refreshTokenExp = T.refreshTokenExp
                  /\ status.accessTokenValid
                       <=> (T.accessToken # ""
                            /\ ttl(T.accessTokenExp, t) >= MIN_TOKEN_TTL)
                  /\ status.loggedIn
                       <=> (T.refreshToken # ""
                            /\ ttl(T.refreshTokenExp, t) >= MIN_TOKEN_TTL)]_vars

\* no call was ever made, so the record stored was written by setStatus; it
\* was valid when written, time has passed and its access token has expired
C16_Witness ==
  /\ \A c \in Calls : pc[c] = "idle"
  /\ storage # <<>>
  /\ storage[1][6] = TRUE
  /\ getStatus(storage, now).accessToken # ""
  /\ ~getStatus(storage, now).accessTokenValid

\* C17: setLoggedOut() is idempotent. Every setLoggedOut() leaves the record
\* absent and getStatus() equal to the empty logged-out record, and a
\* setLoggedOut() made on the state a setLoggedOut() leaves (record absent)
\* changes nothing in storage; no call's progress or lock is touched.
C17_LogoutIdempotent ==
  [][\A tab \in Tabs :
       SetLoggedOut(tab)
         => /\ storage' = <<>>
            /\ getStatus(storage', now') = BASE_STATUS
            /\ storage = <<>> => storage' = storage
            /\ pc' = pc /\ lock' = lock /\ result' = result]_vars

\* the host logged out after a call had resolved with a token of the session
C17_Witness ==
  \E c \in Calls :
    /\ pc[c] = "done" /\ result[c].kind = "value"
    /\ storage = <<>>
    /\ getStatus(storage, now) = BASE_STATUS

\* the time left until the epoch second exp, in half seconds (may be negative)
HalfSecondsLeft(exp) == 2 * exp - now

\* C18: derived flags. For the status getStatus() returns, accessTokenValid
\* holds iff accessToken is non-empty and ttl(accessTokenExp) >= MIN_TOKEN_TTL,
\* and loggedIn holds iff refreshToken is non-empty and ttl(refreshTokenExp)
\* >= MIN_TOKEN_TTL; ttl is a whole number of seconds, never negative. The
\* boundary is inclusive: a non-empty token with exactly MIN_TOKEN_TTL seconds
\* left is valid, one with exactly MIN_TOKEN_TTL - 1 seconds left is not.
C18_DerivedFlags ==
  LET status == getStatus(storage, now)
      expOf == [accessTokenValid |-> status.accessTokenExp,
                loggedIn |-> status.refreshTokenExp]
      tokenOf == [accessTokenValid |-> status.accessToken,
                  loggedIn |-> status.refreshToken]
  IN  \A flag \in {"accessTokenValid", "loggedIn"} :
        /\ ttl(expOf[flag], now) \in Nat
        /\ status[flag]
             <=> (tokenOf[flag] # ""
                  /\ ttl(expOf[flag], now) >= MIN_TOKEN_TTL)
        /\ HalfSecondsLeft(expOf[flag]) <= 0 => ttl(expOf[flag], now) = 0
        /\ (tokenOf[flag] # ""
              /\ HalfSecondsLeft(expOf[flag]) = 2 * MIN_TOKEN_TTL)
             => status[flag]
        /\ (tokenOf[flag] # ""
              /\ HalfSecondsLeft(expOf[flag]) = 2 * (MIN_TOKEN_TTL - 1))
             => ~status[flag]
        /\ tokenOf[flag] = "" => ~status[flag]

\* the stored access token has exactly MIN_TOKEN_TTL - 1 seconds left and is
\* reported invalid, while the refresh token is still valid
C18_Witness ==
  LET status == getStatus(storage, now)
  IN  /\ status.accessToken # ""
      /\ HalfSecondsLeft(status.accessTokenExp) = 2 * (MIN_TOKEN_TTL - 1)
      /\ ~status.accessTokenValid
      /\ status.loggedIn

\* C19 as stated: every Status written to storage and every Status returned
\* by getStatus() has the empty string as accessToken whenever its
\* accessTokenValid is false.
C19_Original ==
  /\ storage # <<>>
       => (~JSONparse(storage[1]).accessTokenValid
             => JSONparse(storage[1]).accessToken = "")
  /\ ~getStatus(storage, now).accessTokenValid
       => getStatus(storage, now).accessToken = ""

\* C19, amended: every Status written to storage by setStatus or by a
\* successful refresh, and every Status returned by getStatus(), carries the
\* accessToken string it was given, stale or not, and has accessTokenValid
\* false whenever that string is empty or not valid at the time of the write,
\* respectively of the read.
C19_StaleFlaggedNotBlanked ==
  /\ [](LET status == getStatus(storage, now)
        IN  /\ status.accessToken = StoredTokens.accessToken
            /\ status.accessTokenValid <=> StoredAccessValid)
  /\ [][\A T \in Tokens :
          LET written == JSONparse(storage'[1])
          IN  ((\E tab \in Tabs : SetStatus(tab, T))
                 \/ (\E c \in Calls : CallbackResolve(c, T)))
                => /\ written.accessToken = T.accessToken
                   /\ written.accessTokenValid
                        <=> (T.accessToken # ""
                             /\ ttl(T.accessTokenExp, now')
                                  >= MIN_TOKEN_TTL)]_vars

\* a record written with an access token that was already stale: the string
\* is stored, flagged invalid, and getStatus() returns it
C19_Witness ==
  /\ storage # <<>>
  /\ JSONparse(storage[1]).accessToken # ""
  /\ ~JSONparse(storage[1]).accessTokenValid
  /\ getStatus(storage, now).accessToken # ""
  /\ ~getStatus(storage, now).accessTokenValid

\* C20: derived fields are never trusted from storage. Whatever loggedIn and
\* accessTokenValid the persisted record carries, getStatus() returns them
\* recomputed from the record's token strings and expiry timestamps and the
\* current time: a record stored with a flag true whose timestamp has since
\* expired is returned with that flag false.
C20_FlagsRecomputed ==
  storage # <<>> =>
    LET raw == JSONparse(storage[1])
        status == getStatus(storage, now)
    IN  /\ (raw.accessTokenValid /\ ~StoredAccessValid)
             => ~status.accessTokenValid
        /\ (raw.loggedIn /\ ~StoredRefreshValid) => ~status.loggedIn
        /\ status.accessTokenValid = StoredAccessValid
        /\ status.loggedIn = StoredRefreshValid

\* a record stored as logged in with a valid access token; both timestamps
\* have expired since, and getStatus() reports neither
C20_Witness ==
  /\ storage # <<>>
  /\ JSONparse(storage[1]).loggedIn
  /\ JSONparse(storage[1]).accessTokenValid
  /\ ~getStatus(storage, now).loggedIn
  /\ ~getStatus(storage, now).accessTokenValid

\* C21: an unparsable stored record is treated as an absent one. getStatus()
\* raises no error on it, and a getAccessToken() call that reads it settles
\* as it does on the empty status, with the LoggedOut error, never with the
\* parser's exception.
C21_SelfHealing ==
  [][\A c \in Calls :
       (Reads(c) /\ getStatusThrows(storage))
         => result'[c] = Error(LOGGED_OUT_ERROR)]_vars

\* C22: clearing removes the record. After setLoggedOut(), called by the host
\* or through the logout handle of a callback, no item is stored under the
\* status key; setStatus() always leaves an item, even for Tokens with empty
\* token strings, so an absent record and a stored empty status differ.
C22_ClearRemoves ==
  [][/\ \A tab \in Tabs : SetLoggedOut(tab) => storage' = <<>>
     /\ \A c \in Calls :
          (pc[c] = "inflight" /\ ~handle[c] /\ handle'[c]) => storage' = <<>>
     /\ \A tab \in Tabs, T \in Tokens :
          SetStatus(tab, T) => storage' # <<>>]_vars

\* the logout handle of a callback in flight has removed the record of a
\* session that was logged in
C22_Witness ==
  \E c \in Calls :
    /\ pc[c] = "inflight" /\ handle[c] /\ arg[c] # ""
    /\ storage = <<>>

\* C23: subscribeStatusUpdates(fn) registers fn as the tab's newest subscriber
\* and, in the same step, delivers the status read from storage at that moment
\* to fn, exactly once, and to no other subscriber of that or any other tab;
\* nothing is written.
C23_SubscribeDeliversOnce ==
  [][\A tab \in Tabs :
       statusSubscribers'[tab] # statusSubscribers[tab]
         => /\ statusSubscribers'[tab] = statusSubscribers[tab] + 1
            /\ \A other \in Tabs \ {tab} :
                 statusSubscribers'[other] = statusSubscribers[other]
            /\ sent' = <<[tab |-> tab, sub |-> statusSubscribers'[tab],
                          status |-> getStatus(storage, now)]>>
            /\ storage' = storage]_vars

\* a second subscriber has just been registered in a tab: the one delivery
\* made went to it, none to the first subscriber
C23_Witness ==
  \E tab \in Tabs :
    /\ statusSubscribers[tab] = 2
    /\ Len(sent) = 1
    /\ sent[1].tab = tab /\ sent[1].sub = 2
    /\ sent[1].status = getStatus(storage, now)

\* C24: every status mutation made in a tab (setStatus, setLoggedOut, a
\* successful refresh, the logout handle of a callback) delivers, in the same
\* step, the status re-read from storage after the write to every subscriber
\* of that tab, each exactly once and in registration order.
C24_MutationPublishesFresh ==
  [][/\ \A tab \in Tabs :
          (SetLoggedOut(tab) \/ \E T \in Tokens : SetStatus(tab, T))
            => OncePerSubscriber(tab)
     /\ \A c \in Calls :
          ((pc[c] = "inflight" /\ pc'[c] = "saved")
             \/ (pc[c] = "inflight" /\ ~handle[c] /\ handle'[c]))
            => OncePerSubscriber(tabOf(c))]_vars

\* a login that changed the stored record has just been delivered to the two
\* subscribers of the tab, first to the one registered first
C24_Witness ==
  \E tab \in Tabs :
    /\ statusSubscribers[tab] = 2
    /\ Len(sent) = 2
    /\ sent[1].sub = 1 /\ sent[2].sub = 2
    /\ sent[1].status = getStatus(storage, now)
    /\ sent[1].status.loggedIn
    /\ \A c \in Calls : pc[c] = "idle"

\* C26: a status mutation performed in one tab is delivered to the subscribers
\* registered in every tab sharing the storage: whenever the stored record
\* changes, each subscriber of each tab receives a delivery.
C26_CrossTabDelivery ==
  [][storage' # storage
       => \A tab \in Tabs :
            \A i \in 1..statusSubscribers[tab] :
              \E k \in 1..Len(sent') :
                sent'[k].tab = tab /\ sent'[k].sub = i]_vars

\* C25: module-level service. A call that needs a refresh while no refresh
\* callback is registered does not fail: it is suspended, holding the lock and
\* the refresh token it read. It leaves the suspension only once
\* setRefreshCallback() has registered a callback, and only by invoking that
\* callback, once, with that refresh token.
C25_AwaitsRegistration ==
  [][\A c \in Calls :
       /\ (/\ Reads(c)
           /\ ~getStatusThrows(storage)
           /\ Decide(getStatus(storage, now)) = "refresh"
           /\ refreshCallbackPromise[tabOf(c)] = "pending")
            => /\ pc'[c] = "suspended"
               /\ result'[c] = NoResult
               /\ arg'[c] = StoredTokens.refreshToken
               /\ cbCount'[c] = cbCount[c]
       /\ (pc[c] = "suspended" /\ pc'[c] # "suspended")
            => /\ refreshCallbackPromise[tabOf(c)] = "resolved"
               /\ pc'[c] = "inflight"
               /\ arg'[c] = arg[c]
               /\ cbCount'[c] = cbCount[c] + 1
               /\ lock'[lockOf(c)] = c]_vars

\* C25 witness: a call that was suspended before the callback was registered
\* has been resumed: the callback, registered meanwhile, is in flight with the
\* refresh token the call read
C25_Witness ==
  \E c \in Calls :
    /\ pc[c] = "inflight"
    /\ outcome[c] = "awaited"
    /\ cbCount[c] = 1
    /\ arg[c] = "R1"
    /\ refreshCallbackPromise[tabOf(c)] = "resolved"

\* C27: peer-reload broadcaster. The subscriber registered by
\* subscribeToPeerTabUpdates posts a statusChange message exactly when it is
\* delivered a status whose loggedIn differs from the one it last observed,
\* and the message carries the new value. The value it starts from is
\* getStatus().loggedIn at subscription, so the delivery made on subscribing
\* posts nothing, and neither does a mutation, such as a token refresh, whose
\* delivered loggedIn equals the one last observed.
C27_PostsOnFlip ==
  [][\A tab \in Tabs :
       LET hits == {k \in 1..Len(sent') :
                      sent'[k].tab = tab /\ sent'[k].sub = peerSub'[tab]}
           msgs == {m \in 1..Len(posted') : posted'[m].tab = tab}
       IN  /\ peerSub[tab] = 0
                => /\ msgs = {}
                   /\ peerSub'[tab] # 0
                        => /\ peerLoggedIn'[tab] = getStatus(storage, now).loggedIn
                           /\ hits # {}
                           /\ storage' = storage
           /\ peerSub[tab] # 0
                => /\ Cardinality(hits) <= 1
                   /\ Cardinality(msgs) <= 1
                   /\ msgs # {}
                        <=> \E k \in hits :
                              sent'[k].status.loggedIn # peerLoggedIn[tab]
                   /\ \A m \in msgs, k \in hits :
                        posted'[m].message =
                          statusChangeMessage(sent'[k].status.loggedIn)
                   /\ \A k \in hits :
                        /\ peerLoggedIn'[tab] = sent'[k].status.loggedIn
                        /\ sent'[k].status = getStatus(storage', now)
                   /\ hits = {} => peerLoggedIn'[tab] = peerLoggedIn[tab]]_vars

\* C27 witness: the broadcaster of a tab that had observed a logged-in status
\* has just been delivered a logged-out one and posted the message for it
C27_Witness ==
  \E tab \in Tabs :
    /\ peerSub[tab] # 0
    /\ posted = <<[tab |-> tab, message |-> "statusChange: false"]>>
    /\ ~peerLoggedIn[tab]
    /\ \E k \in 1..Len(sent) : sent[k].sub = peerSub[tab]

\* C29: without the Web Locks API the guarded section is exclusive within a
\* tab only: two calls that are inside their sections at once run in
\* different tabs.
C29_ExclusiveWithinTab ==
  ~supportsWebLocksApi
    => \A c1 \in Calls, c2 \in Calls :
         (c1 # c2 /\ Inside(c1) /\ Inside(c2)) => tabOf(c1) # tabOf(c2)

\* C29 witness: without the Web Locks API two calls in different tabs are
\* inside their sections at once, each with the refresh callback in flight
\* on the same stored record and the same refresh token
C29_Witness ==
  /\ ~supportsWebLocksApi
  /\ \E c1 \in Calls, c2 \in Calls :
       /\ tabOf(c1) # tabOf(c2)
       /\ pc[c1] = "inflight"
       /\ pc[c2] = "inflight"
       /\ arg[c1] = "R1"
       /\ arg[c2] = "R1"
       /\ cycle = 2

\* the call is not pending and does not hold the lock
Settled(c) == pc[c] \in {"idle", "done"} /\ lock[lockOf(c)] # c

\* the record saved from the Tokens the callback returned is re-read inside
\* the section and still calls for a refresh
StaleReturn(c) ==
  /\ pc[c] = "saved"
  /\ ~getStatusThrows(storage)
  /\ Decide(getStatus(storage, now)) = "refresh"

\* C30 as stated: under a fair lock and with every callback invocation
\* settling, every getAccessToken() call eventually settles and releases the
\* lock, whatever Tokens the callback returns.
C30_Original ==
  \A c \in Calls : (pc[c] = "waiting") ~> Settled(c)

\* C30: under a fair lock and with every callback invocation settling, every
\* getAccessToken() call settles and releases the lock again and again,
\* unless the callback's returns keep being re-read, again and again, as a
\* record without a valid access token and with a valid refresh token.
C30_SettlesUnlessStale ==
  \A c \in Calls : []<>(Settled(c) \/ \E d \in Calls : StaleReturn(d))

\* C30 witness: a call whose callback first returned Tokens with a stale
\* access token was made to invoke the callback again, and has settled with
\* the access token of the second return and released the lock
C30_Witness ==
  \E c \in Calls :
    /\ Settled(c)
    /\ pc[c] = "done"
    /\ cbCount[c] = 2
    /\ result[c] = Value("A1")

\* C28: instances constructed with different storage keys and different lock
\* names are independent. A setStatus, setLoggedOut or getAccessToken() step
\* of one leaves the record under the other's key as it was and calls none of
\* the other's subscribers, and a getAccessToken() call of one that waits for
\* its lock is never kept waiting by a call of the other.
C28_IndependentInstances ==
  [][\A tab \in Tabs, other \in Tabs :
       (storageKey[tab] # storageKey[other] /\ lockName[tab] # lockName[other])
         => /\ (\/ SetLoggedOut(tab)
                \/ \E T \in Tokens : SetStatus(tab, T)
                \/ \E c \in Calls : tabOf(c) = tab /\ pc'[c] # pc[c])
                 => /\ newItem(other) = getItem(other)
                    /\ \A k \in 1..Len(sent') : sent'[k].tab # other
            /\ \A c \in Calls, d \in Calls :
                 (tabOf(c) = tab /\ tabOf(d) = other /\ pc[c] = "waiting")
                   => lock[lockOf(c)] # d]_vars

\* C28 witness: two instances with different keys and lock names each hold
\* their own lock with their refresh callback in flight, over different
\* records, each with a subscriber of its own
C28_Witness ==
  /\ storageKey[1] # storageKey[2]
  /\ lockName[1] # lockName[2]
  /\ pc[1] = "inflight"
  /\ pc[2] = "inflight"
  /\ lock[lockOf(1)] = 1
  /\ lock[lockOf(2)] = 2
  /\ storage # <<>>
  /\ others # <<>>
  /\ storage # others
  /\ statusSubscribers[1] > 0
  /\ statusSubscribers[2] > 0

\* C31: a logout is not undone by a refresh in flight. When the item was
\* removed by setLoggedOut() while a call's refresh callback was in flight
\* (the callback has not used its logout handle), the success of that
\* callback leaves the stored status logged out.
C31_LogoutNotUndone ==
  [][\A c \in Calls :
       (/\ pc[c] = "inflight"
        /\ ~handle[c]
        /\ storage = <<>>
        /\ pc'[c] = "saved")
         => ~getStatus(storage', now').loggedIn]_vars

\* C32: a subscriber does not turn a successful refresh into a failure. The
\* step in which the refresh callback resolves with Tokens that are saved as
\* a status with a valid access token does not reject the call, whatever the
\* subscribers do when they are notified.
C32_SubscriberCannotFailRefresh ==
  [][\A c \in Calls :
       (/\ pc[c] = "inflight"
        /\ pc'[c] # "inflight"
        /\ outcome'[c] = "resolved"
        /\ getStatus(storage', now').accessTokenValid)
         => result'[c].kind # "error"]_vars

\* C33: module-level service on the in-memory fallback storage. After
\* setLoggedOut() getStatus() is the empty logged-out record.
C33_FallbackRemoves ==
  [][SetLoggedOut(1) => getStatus(storage', now') = BASE_STATUS]_vars

RECURSIVE Sum(_)
Sum(seq) == IF seq = <<>> THEN 0 ELSE Head(seq) + Sum(Tail(seq))

\* C34: Timer. Every delay handed to setTimeout is at most maxTimeoutMs; the
\* delays handed over and what is left of ttlMs always add up to the ttlMs
\* the Timer was constructed with, so the chain is no longer than that ttlMs
\* needs; the callback is called at most once, only after delays adding up
\* to exactly that ttlMs have passed, and a Timer that was not cancelled and
\* has no timeout pending has called it.
C34_ChainedTimeouts ==
  /\ \A i \in 1..Len(timer.scheduled) :
       timer.scheduled[i] >= 0 /\ timer.scheduled[i] <= maxTimeoutMs
  /\ Sum(timer.scheduled) + timer.ttlMs = timer.target
  /\ timer.ttlMs >= 0
  /\ Len(timer.scheduled) <= (timer.target \div maxTimeoutMs) + 1
  /\ timer.callbacks <= 1
  /\ timer.callbacks = 1
       => /\ Sum(timer.scheduled) = timer.target
          /\ timer.elapsed >= timer.target
  /\ (timer.id = -1 /\ ~timer.cancelled) => timer.callbacks = 1

\* C34 witness: a Timer constructed with more than twice the longest timeout
\* has called its callback after a chain of three timeouts
C34_Witness ==
  /\ timer.target > 2 * maxTimeoutMs
  /\ timer.callbacks = 1
  /\ Len(timer.scheduled) = 3
  /\ ~timer.cancelled

\* C35: Timer cancellation. Once cancel() has been called on a Timer that
\* has not called its callback, no timeout is pending, the callback is never
\* called and no further delay is handed to setTimeout.
C35_CancelStops ==
  [][(timer.cancelled \/ timer'.cancelled)
       => /\ timer'.id = -1
          /\ timer'.callbacks = timer.callbacks
          /\ timer'.scheduled = timer.scheduled]_vars

\* C35 witness: a Timer constructed with more than the longest timeout was
\* cancelled during a later timeout of its chain, with part of its ttlMs
\* still to go, and has not called its callback
C35_Witness ==
  /\ timer.cancelled
  /\ timer.target > maxTimeoutMs
  /\ Len(timer.scheduled) >= 2
  /\ timer.ttlMs > 0
  /\ timer.callbacks = 0
  /\ timer.id = -1

\* C36: leader-scheduler variant. The refresh callback is invoked only in
\* the leader tab, only while that tab's currentStatus has loggedIn true,
\* and only once until updateStatus, a statusChange message or a logout has
\* been handled in the tab: a refresh token is handed to the callback at
\* most once.
C36_OneRefreshPerToken ==
  [][\A tab \in Tabs :
       (leaderTabs'[tab].invocations > leaderTabs[tab].invocations)
         => /\ leaderTabs'[tab].invocations = 1
            /\ leaderTabs[tab].isLeader
            /\ leaderTabs[tab].currentStatus.loggedIn]_vars

\* C37: leader-scheduler variant. Whenever a getAccessToken() call is
\* resolved, at once or after waiting for updateStatus or a statusChange
\* message, it is resolved with a non-empty access token whose ttl is at
\* least MIN_TTL at that moment; a call waiting when setLoggedOut() runs or
\* a logout message is handled is rejected with LOGGED_OUT_ERROR.
C37_ResolvesValidToken ==
  [][\A tab \in Tabs :
       LET rec == leaderTabs[tab]
           after == leaderTabs'[tab]
           settled == \/ rec.waiting /\ ~after.waiting
                      \/ LeaderGetAccessToken(tab) /\ ~after.waiting
       IN  /\ (settled /\ after.answer.kind = "value")
                => /\ after.answer.token # ""
                   /\ ttl(after.answer.exp, now') >= MIN_TTL
           /\ (rec.waiting /\ (LeaderSetLoggedOut(tab) \/ HandleLogoutMessage(tab)))
                => after.answer = Rejected(LOGGED_OUT_ERROR)]_vars

TypeOK ==
  /\ now \in 0..MaxNow
  /\ Len(storage) \in {0, 1}
  /\ pc \in [Calls -> {"idle", "waiting", "suspended", "inflight", "saved",
                       "done"}]
  /\ cbCount \in [Calls -> 0..2]
  /\ refreshCallbackPromise \in [Tabs -> {"pending", "resolved"}]

====
